---- MODULE Spec2Model ----
(***************************************************************************)
(* Merge-scan read path of be/src/vec/olap/block_reader.cpp:               *)
(* BlockReader::init, the disjointness classifier and the three            *)
(* next-block strategies (direct, UNIQUE_KEYS, AGG_KEYS).                  *)
(*                                                                         *)
(* VCollectIterator, Block::filter_block, Slice and the aggregate          *)
(* functions are collaborators whose code is not part of the excerpt;      *)
(* they are modelled from the specification text.                          *)
(***************************************************************************)
EXTENDS Integers, Sequences, FiniteSets, TLC

\* ------------------------------------------------------------------ bounds
\* longest merged row stream handed to one scan
MaxRows == 4
\* largest configured batch size (_reader_context.batch_size ranges 1..MaxBatch)
MaxBatch == 3
\* longest list of rowset splits given to the classifier
MaxSplits == 3

VARIABLES
    params,       \* ReaderParams / _reader_context / TabletReader flags of the scan
    rs_splits,    \* read_params.rs_splits: the rowsets' metadata
    iter,         \* _vcollect_iter: the rowsets' rows, the rows it yields, its position
    reader,       \* the BlockReader's own fields
    block,        \* the caller's Block after the last call
    eof,          \* the caller's end-of-stream variable
    res,          \* Status returned by the last call
    call,         \* what the last next call did (bookkeeping of the call itself)
    delivered,    \* every row handed to the caller so far, in order
    pc,           \* "constructed" | "ready" | "init_failed" | "next_failed" | "undefined"
    runtime_state,  \* read_params.runtime_state: the cancellation flag of the scan
    tablet_errors,  \* the statuses handed to Tablet::report_error, in order
    warm_up         \* CloudBackendService: the warm-up manager and the last request

vars == <<params, rs_splits, iter, reader, block, eof, res, call, delivered, pc,
          runtime_state, tablet_errors, warm_up>>

\* ------------------------------------------------------------- utilities
Min(a, b) == IF a < b THEN a ELSE b

Max(a, b) == IF a < b THEN b ELSE a

RECURSIVE Pow2(_)
Pow2(n) == IF n = 0 THEN 1 ELSE 2 * Pow2(n - 1)

RECURSIVE SumSeq(_)
SumSeq(s) == IF s = <<>> THEN 0 ELSE Head(s) + SumSeq(Tail(s))

SelectIdx(s, P(_)) ==
    LET F[i \in 0..Len(s)] ==
            IF i = 0 THEN <<>>
            ELSE IF P(i) THEN Append(F[i - 1], s[i]) ELSE F[i - 1]
    IN F[Len(s)]

\* ------------------------------------------------ keys and rowset splits
\* Encoded keys are byte strings; a two-letter alphabet with lengths 0..2 has
\* the empty key, proper prefixes, ties and both orders.
KeyStrings == {<<>>, <<1>>, <<1, 1>>, <<2>>}

\* Slice::compare: bytewise lexicographic order, a proper prefix sorts first.
RECURSIVE SliceCompare(_, _)
SliceCompare(x, y) ==
    IF x = <<>> /\ y = <<>> THEN 0
    ELSE IF x = <<>> THEN -1
    ELSE IF y = <<>> THEN 1
    ELSE IF Head(x) < Head(y) THEN -1
    ELSE IF Head(x) > Head(y) THEN 1
    ELSE SliceCompare(Tail(x), Tail(y))

\* Slice::lhs_is_strictly_less_than_rhs: with a truncated bound only a
\* difference inside the common prefix is conclusive.
lhs_is_strictly_less_than_rhs(lhs, lhs_truncated, rhs, rhs_truncated) ==
    IF lhs_truncated \/ rhs_truncated
    THEN LET n == Min(Len(lhs), Len(rhs))
         IN SliceCompare(SubSeq(lhs, 1, n), SubSeq(rhs, 1, n)) < 0
    ELSE SliceCompare(lhs, rhs) < 0

\* One rowset as the classifier reads it.
Split(n, ovl, hasfirst, first, last, trunc) ==
    [num_rows |-> n, is_segments_overlapping |-> ovl, has_first_key |-> hasfirst,
     first_key |-> first, last_key |-> last,
     is_segments_key_bounds_truncated |-> trunc]

\* The key bounds of a rowset: first_key <= last_key (the empty first key is
\* kept with one last key only).
KeyBounds ==
    {c \in KeyStrings \X KeyStrings :
        /\ SliceCompare(c[1], c[2]) <= 0
        /\ c[1] = <<>> => c[2] = <<1>>}

\* The rowsets a list may hold: empty ones (plain, with overlapping segments,
\* without a first key), ones with overlapping segments, ones without a first
\* key, and ordinary ones with their bounds whole or truncated.
SplitKinds ==
    {Split(0, FALSE, TRUE, <<1>>, <<1>>, FALSE),
     Split(0, TRUE, TRUE, <<1>>, <<1>>, FALSE),
     Split(0, FALSE, FALSE, <<1>>, <<1>>, FALSE)}
    \cup {Split(1, TRUE, TRUE, <<1>>, <<2>>, FALSE)}
    \cup {Split(1, FALSE, FALSE, <<>>, <<1>>, FALSE)}
    \cup {Split(1, FALSE, TRUE, b[1], b[2], t) : b \in KeyBounds, t \in BOOLEAN}

SplitLists == UNION {[1..n -> SplitKinds] : n \in 0..MaxSplits}

\* Mutant of the classifier: a rowset with overlapping segments is not rejected.
RECURSIVE NotMonoIgnoringOverlap(_, _, _)
NotMonoIgnoringOverlap(splits, pre_rs_last_key, pre_rs_key_bounds_truncated) ==
    IF splits = <<>> THEN FALSE
    ELSE LET rs == Head(splits) IN
         IF rs.num_rows = 0
         THEN NotMonoIgnoringOverlap(Tail(splits), pre_rs_last_key,
                                     pre_rs_key_bounds_truncated)
         ELSE IF ~rs.has_first_key THEN TRUE
         ELSE IF ~lhs_is_strictly_less_than_rhs(
                     pre_rs_last_key, pre_rs_key_bounds_truncated,
                     rs.first_key, rs.is_segments_key_bounds_truncated) THEN TRUE
         ELSE NotMonoIgnoringOverlap(Tail(splits), rs.last_key,
                                     rs.is_segments_key_bounds_truncated)

\* Mutant of the classifier: a rowset without rows is looked at like the others.
RECURSIVE NotMonoNoSkipEmpty(_, _, _)
NotMonoNoSkipEmpty(splits, pre_rs_last_key, pre_rs_key_bounds_truncated) ==
    IF splits = <<>> THEN FALSE
    ELSE LET rs == Head(splits) IN
         IF rs.is_segments_overlapping THEN TRUE
         ELSE IF ~rs.has_first_key THEN TRUE
         ELSE IF ~lhs_is_strictly_less_than_rhs(
                     pre_rs_last_key, pre_rs_key_bounds_truncated,
                     rs.first_key, rs.is_segments_key_bounds_truncated) THEN TRUE
         ELSE NotMonoNoSkipEmpty(Tail(splits), rs.last_key,
                                 rs.is_segments_key_bounds_truncated)

\* Mutant of the classifier: a rowset without rows is not examined, but its
\* last key and truncation flag are remembered.
RECURSIVE NotMonoEmptyUpdatesLastKey(_, _, _)
NotMonoEmptyUpdatesLastKey(splits, pre_rs_last_key, pre_rs_key_bounds_truncated) ==
    IF splits = <<>> THEN FALSE
    ELSE LET rs == Head(splits) IN
         IF rs.num_rows = 0
         THEN NotMonoEmptyUpdatesLastKey(Tail(splits), rs.last_key,
                                         rs.is_segments_key_bounds_truncated)
         ELSE IF rs.is_segments_overlapping THEN TRUE
         ELSE IF ~rs.has_first_key THEN TRUE
         ELSE IF ~lhs_is_strictly_less_than_rhs(
                     pre_rs_last_key, pre_rs_key_bounds_truncated,
                     rs.first_key, rs.is_segments_key_bounds_truncated) THEN TRUE
         ELSE NotMonoEmptyUpdatesLastKey(Tail(splits), rs.last_key,
                                         rs.is_segments_key_bounds_truncated)

\* The loop of _rowsets_not_mono_asc_disjoint over the remaining splits.
RECURSIVE NotMonoAscDisjointFrom(_, _, _)
NotMonoAscDisjointFrom(splits, pre_rs_last_key, pre_rs_key_bounds_truncated) ==
    IF splits = <<>> THEN FALSE
    ELSE LET rs == Head(splits) IN
         IF rs.num_rows = 0
         THEN NotMonoAscDisjointFrom(Tail(splits), pre_rs_last_key,
                                     pre_rs_key_bounds_truncated)
         ELSE IF rs.is_segments_overlapping THEN TRUE
         ELSE IF ~rs.has_first_key THEN TRUE
         ELSE IF ~lhs_is_strictly_less_than_rhs(
                     pre_rs_last_key, pre_rs_key_bounds_truncated,
                     rs.first_key, rs.is_segments_key_bounds_truncated) THEN TRUE
         ELSE NotMonoAscDisjointFrom(Tail(splits), rs.last_key,
                                     rs.is_segments_key_bounds_truncated)

\* BlockReader::_rowsets_not_mono_asc_disjoint: TRUE is "needs heap merge".
_rowsets_not_mono_asc_disjoint(splits) ==
    NotMonoAscDisjointFrom(splits, <<>>, FALSE)

\* ------------------------------------------------------- the rows of a scan
\* The merged input of a scan is drawn as a list of raw rows: `same` says the
\* row has the key of its predecessor, `del` is its delete-sign value (Int8),
\* `last` says it is the last row of its source block.
NoRow == [id |-> 0]

RawGroup(raw, i) == Cardinality({j \in 1..i : ~raw[j].same})

\* Rows of one key are yielded newest first: the version of a row is the
\* number of rows of its key-group from it to the group's end.
RawVersion(raw, i) ==
    Cardinality({j \in i..Len(raw) : RawGroup(raw, j) = RawGroup(raw, i)})

RawBlockStart(raw, i) ==
    LET ends == {j \in 1..(i - 1) : raw[j].last}
    IN IF ends = {} THEN 1 ELSE 1 + CHOOSE j \in ends : \A k \in ends : k <= j

RawBlockRows(raw, i) ==
    LET ends == {j \in i..Len(raw) : raw[j].last}
    IN IF ends = {} THEN Len(raw) + 2 - RawBlockStart(raw, i)
       ELSE (CHOOSE j \in ends : \A k \in ends : j <= k) + 1 - RawBlockStart(raw, i)

\* Row i of the input: its key (ascending, or descending under reverse order),
\* version, value (a distinct power of two, so that a sum names the rows
\* it was taken over), delete sign and position in its source block.
InputRow(raw, reverse, i) ==
    [id |-> i,
     key |-> IF reverse THEN Len(raw) + 1 - RawGroup(raw, i) ELSE RawGroup(raw, i),
     ver |-> RawVersion(raw, i),
     val |-> Pow2(i - 1),
     del |-> raw[i].del,
     blk |-> Cardinality({j \in 1..(i - 1) : raw[j].last}),
     row_pos |-> i - RawBlockStart(raw, i),
     block_rows |-> RawBlockRows(raw, i),
     group_first |-> ~raw[i].same,
     is_same |-> FALSE,
     same_bit |-> FALSE]

InputRows(raw, reverse) == [i \in 1..Len(raw) |-> InputRow(raw, reverse, i)]

\* ------------------------------------------------------ read parameters
KeysTypes == {"DUP_KEYS", "UNIQUE_KEYS", "AGG_KEYS"}

\* Columns of the output block: 0 the key, 1 the value, 2 the delete sign.
NumColumns == 3

\* tablet_schema->field_index(DELETE_SIGN): -1 when the schema has no such
\* column, 2 its place here, 3 a place beyond the returned columns.
DeleteSignIdxs == {-1, 2, 3}

Params(kt, dm, rt, mow, bs, rec, dsa, idx, rev) ==
    [keys_type |-> kt, direct_mode |-> dm, reader_type |-> rt,
     enable_unique_key_merge_on_write |-> mow, batch_size |-> bs,
     record_rowids |-> rec, delete_sign_available |-> dsa,
     delete_sign_idx |-> idx, read_orderby_key_reverse |-> rev,
     agg_columns |-> IF kt = "AGG_KEYS" THEN <<"SUM">> ELSE <<>>,
     is_cloud_mode |-> FALSE]

BatchSizes == 1..MaxBatch

\* Scans that take the direct strategy: DUP_KEYS, the direct-mode override on an
\* aggregate table, and merge-on-write unique tables read by a query.
DirectParams ==
    {Params("DUP_KEYS", FALSE, "QUERY", FALSE, bs, rec, FALSE, -1, rev) :
        bs \in BatchSizes, rec \in BOOLEAN, rev \in BOOLEAN}
    \cup {Params("AGG_KEYS", TRUE, "QUERY", FALSE, bs, FALSE, FALSE, -1, FALSE) :
        bs \in BatchSizes}
    \cup {Params("UNIQUE_KEYS", FALSE, "QUERY", TRUE, bs, FALSE, FALSE, -1, FALSE) :
        bs \in BatchSizes}

\* Merge-on-read unique scans: queries, and compactions that may record row
\* locations and filter delete-signed rows.
UniqueParams ==
    {Params("UNIQUE_KEYS", FALSE, "QUERY", FALSE, bs, FALSE, FALSE, -1, rev) :
        bs \in BatchSizes, rev \in BOOLEAN}
    \cup {Params("UNIQUE_KEYS", FALSE, "COMPACTION", TRUE, bs, rec, FALSE, -1, FALSE) :
        bs \in BatchSizes, rec \in BOOLEAN}
    \cup {Params("UNIQUE_KEYS", FALSE, "COMPACTION", TRUE, bs, rec, TRUE, idx, FALSE) :
        bs \in BatchSizes, rec \in BOOLEAN, idx \in DeleteSignIdxs}

AggParams ==
    {Params("AGG_KEYS", FALSE, "QUERY", FALSE, bs, FALSE, FALSE, -1, rev) :
        bs \in BatchSizes, rev \in BOOLEAN}

ParamSet == DirectParams \cup UniqueParams \cup AggParams

\* The direct strategy is chosen (lines 233-246).
TakesDirect(p) ==
    \/ p.direct_mode
    \/ p.keys_type = "DUP_KEYS"
    \/ /\ p.keys_type = "UNIQUE_KEYS"
       /\ p.reader_type = "QUERY"
       /\ p.enable_unique_key_merge_on_write

RawRowSet(sames, dels, lasts) == [same : sames, del : dels, last : lasts]

RawSeqs(S) == {r \in UNION {[1..n -> S] : n \in 0..MaxRows} : r = <<>> \/ ~r[1].same}

\* The raw inputs a scan with parameters p is checked on: only the fields its
\* strategy reads vary.
RawInputs(p) ==
    IF TakesDirect(p) THEN RawSeqs(RawRowSet(BOOLEAN, {0}, {FALSE}))
    ELSE IF p.keys_type = "UNIQUE_KEYS"
    THEN RawSeqs(RawRowSet(BOOLEAN, IF p.delete_sign_available THEN {0, 1} ELSE {0},
                           {FALSE}))
    ELSE RawSeqs(RawRowSet(BOOLEAN, {0}, BOOLEAN))

\* The rowset lists of a scan: two strictly ascending rowsets, or two that
\* share the boundary key <<1>>.
ScanSplitLists ==
    {<<Split(1, FALSE, TRUE, <<1>>, <<1>>, FALSE), Split(1, FALSE, TRUE, <<2>>, <<2>>, FALSE)>>,
     <<Split(1, FALSE, TRUE, <<1>>, <<1>>, FALSE), Split(1, FALSE, TRUE, <<1>>, <<2>>, FALSE)>>}

\* Two rowsets that share the boundary key <<1>>.
ScanSplitLists1 ==
    <<Split(1, FALSE, TRUE, <<1>>, <<1>>, FALSE), Split(1, FALSE, TRUE, <<1>>, <<2>>, FALSE)>>

\* ------------------------------------------------ the merge iterator
\* What _vcollect_iter yields for the scan. Direct scans get every row.
\* UNIQUE_KEYS: only the newest row of each key. AGG_KEYS: every row, a row
\* with the key of its predecessor being flagged, on the row reference when
\* the heap merges and in its block's same-bit otherwise.
IterYield(p, overlapping, rows) ==
    IF TakesDirect(p) THEN rows
    ELSE IF p.keys_type = "UNIQUE_KEYS" THEN SelectIdx(rows, LAMBDA i : rows[i].group_first)
    ELSE [i \in 1..Len(rows) |->
            [rows[i] EXCEPT !.is_same = overlapping /\ ~rows[i].group_first,
                            !.same_bit = ~overlapping /\ ~rows[i].group_first]]

\* _vcollect_iter.current_row(&ref): the row at the position, or END_OF_FILE.
current_row(it) ==
    IF it.pos <= Len(it.rows)
    THEN [status |-> "OK", row |-> it.rows[it.pos]]
    ELSE [status |-> "END_OF_FILE", row |-> NoRow]

\* The rowset readers under the iterator fail on the fail_in-th next call
\* from now on (0: on none); every call that does not fail counts one down.
CountDown(n) == IF n > 0 THEN n - 1 ELSE 0

\* _vcollect_iter.next(&ref): step to the next row, or END_OF_FILE, or the
\* error of a rowset reader, which leaves the position where it was.
IterNextRow(it) ==
    IF it.fail_in = 1
    THEN [status |-> "IO_ERROR", row |-> NoRow, it |-> [it EXCEPT !.fail_in = 0]]
    ELSE IF it.pos + 1 <= Len(it.rows)
    THEN [status |-> "OK", row |-> it.rows[it.pos + 1],
          it |-> [it EXCEPT !.pos = @ + 1, !.fail_in = CountDown(@)]]
    ELSE [status |-> "END_OF_FILE", row |-> NoRow,
          it |-> [it EXCEPT !.pos = Len(it.rows) + 1, !.fail_in = CountDown(@)]]

\* _vcollect_iter.next(Block*): up to batch_size rows into the block;
\* END_OF_FILE only when no row is left; a failing call adds no rows.
IterNextBlock(it, batch_size) ==
    IF it.fail_in = 1
    THEN [status |-> "IO_ERROR", rows |-> <<>>, it |-> [it EXCEPT !.fail_in = 0]]
    ELSE IF it.pos > Len(it.rows)
    THEN [status |-> "END_OF_FILE", rows |-> <<>>,
          it |-> [it EXCEPT !.fail_in = CountDown(@)]]
    ELSE LET n == Min(batch_size, Len(it.rows) + 1 - it.pos)
         IN [status |-> "OK", rows |-> SubSeq(it.rows, it.pos, it.pos + n - 1),
             it |-> [it EXCEPT !.pos = @ + n, !.fail_in = CountDown(@)]]

\* RowLocation of a row: the rowset it came from and its row id there.
RowLocationOf(row) == [rowset |-> row.ver, row_id |-> row.id]

\* _vcollect_iter.current_row_location()
current_row_location(it) == RowLocationOf(it.rows[it.pos])

\* _vcollect_iter.current_block_row_locations(&locations)
current_block_row_locations(rows) == [i \in 1..Len(rows) |-> RowLocationOf(rows[i])]

\* --------------------------------------------------------- construction
\* An aggregate state as its function left it after create or reset.
EmptyPlace == <<>>

ConstructedReader ==
    [_next_block_func |-> "none",
     _is_rowsets_overlapping |-> FALSE,
     _eof |-> FALSE,
     _next_row |-> NoRow,
     _agg_functions |-> <<>>,
     _agg_places |-> <<>>,
     _stored_data_columns |-> <<>>,
     _stored_row_ref |-> <<>>,
     _agg_data_counters |-> <<>>,
     _last_agg_data_counter |-> 0,
     _merged_rows |-> 0,
     _block_row_locations |-> <<>>,
     rows_del_filtered |-> 0,
     _arena |-> <<>>]

\* A block with no rows: `normal` holds the eagerly written (key and
\* non-aggregated) columns row by row, `agg` the aggregated value column.
EmptyBlock == [normal |-> <<>>, agg |-> <<>>]

NoCall == [strategy |-> "none", eof_in |-> FALSE, entry_eof |-> FALSE,
           gathered |-> <<>>, pulled |-> 0, hit_eof |-> FALSE, filtered |-> FALSE,
           entry_pos |-> 0, flushes |-> <<>>, updates |-> <<>>, ranges |-> <<>>,
           pulls |-> <<>>]

\* The backend service before any warm-up request: the manager holds no job
\* metas, no request was handled.
NoWarmUp ==
    [jobs |-> <<>>,
     request |-> [type |-> "none", job_id |-> 0, batch_id |-> 0, job_metas |-> <<>>],
     answers |-> [job_st |-> "OK", batch_st |-> "OK", retry |-> FALSE, clear_st |-> "OK"],
     calls |-> <<>>, st |-> "OK",
     response |-> [status |-> "none", job_state_set |-> FALSE]]

\* The step of init's set-up that answers something else than OK: which
\* step, at which rowset split (rs_init, add_child), and the status.
InitFault(stage, at, status) == [stage |-> stage, at |-> at, status |-> status]

NoInitFault == InitFault("none", 0, "OK")

\* A scan before init: its parameters, rowsets and rows, the number of polls
\* of the cancellation flag that still see it clear (-1: it is never raised,
\* or there is no runtime state), the iterator call that will fail and the
\* set-up step that will.
InitState(p, splits, raw, clear_polls, fail_in, init_fault) ==
    /\ params = p
    /\ rs_splits = splits
    /\ iter = [source |-> InputRows(raw, p.read_orderby_key_reverse),
               rows |-> <<>>, pos |-> 0, children |-> <<>>, inited |-> <<>>,
               heap_built |-> FALSE, fail_in |-> fail_in, init_fault |-> init_fault]
    /\ reader = ConstructedReader
    /\ block = EmptyBlock
    /\ eof = FALSE
    /\ res = "none"
    /\ call = NoCall
    /\ delivered = <<>>
    /\ pc = "constructed"
    /\ runtime_state = [clear_polls |-> clear_polls]
    /\ tablet_errors = <<>>
    /\ warm_up = NoWarmUp

\* A scan whose set-up does not fail.
InitWithFaults(p, splits, raw, clear_polls, fail_in) ==
    InitState(p, splits, raw, clear_polls, fail_in, NoInitFault)

\* A scan that is not cancelled and whose rowset readers do not fail.
InitWith(p, splits, raw) == InitWithFaults(p, splits, raw, -1, 0)

\* Scans over every input row stream, with two rowset lists.
Init ==
    \E p \in ParamSet : \E raw \in RawInputs(p) : \E splits \in ScanSplitLists :
        InitWith(p, splits, raw)

\* ------------------------------------------------------------------ init
\* column.get_aggregate_function(AGG_READER_SUFFIX, be_exec_version): the
\* function a column declares, or null when it cannot be resolved.
get_aggregate_function(column) == IF column = "SUM" THEN "SUM" ELSE "null"

\* The loop of _init_agg_state over the aggregated columns (lines 175-200).
RECURSIVE InitAggSlots(_, _)
InitAggSlots(rd, columns) ==
    IF columns = <<>> THEN [rd |-> rd, status |-> "OK"]
    ELSE LET function == get_aggregate_function(Head(columns))
         IN IF function = "null" THEN [rd |-> rd, status |-> "INTERNAL_ERROR"]
            ELSE InitAggSlots([rd EXCEPT !._agg_functions = Append(@, function),
                                         !._agg_places = Append(@, EmptyPlace)],
                              Tail(columns))

\* Mutant of _init_agg_state: the slots are allocated on an empty scan too.
InitAggStateOnEmptyScan(rd, p) ==
    InitAggSlots([rd EXCEPT !._stored_data_columns = [i \in 1..p.batch_size |-> 0]],
                 p.agg_columns)

\* Mutant of _init_agg_state: an unresolved function is passed over.
InitAggStateSkipUnresolved(rd, p) ==
    IF rd._eof THEN [rd |-> rd, status |-> "OK"]
    ELSE InitAggSlots([rd EXCEPT !._stored_data_columns = [i \in 1..p.batch_size |-> 0]],
                      SelectSeq(p.agg_columns,
                                LAMBDA c : get_aggregate_function(c) # "null"))

\* _init_agg_state: nothing when the scan is empty; else the stored columns
\* get batch_size rows and each aggregated column its function and state.
_init_agg_state(rd, p) ==
    IF rd._eof THEN [rd |-> rd, status |-> "OK"]
    ELSE InitAggSlots([rd EXCEPT !._stored_data_columns = [i \in 1..p.batch_size |-> 0]],
                      p.agg_columns)

\* ~BlockReader: the (function, state) pairs destroyed, in order.
DestroyedSlots(rd) ==
    [i \in 1..Len(rd._agg_functions) |->
        [function |-> rd._agg_functions[i],
         place |-> IF i <= Len(rd._agg_places) THEN rd._agg_places[i] ELSE "dangling"]]

\* runtime_state->is_cancelled()
is_cancelled(rs) == rs.clear_polls = 0

\* The runtime state after a poll that saw the flag clear.
Polled(rs) == [rs EXCEPT !.clear_polls = IF @ > 0 THEN @ - 1 ELSE @]

\* Mutant of the loop: the flag is polled after the rowset reader is set up.
RECURSIVE InitRowsetReadersPollLate(_, _, _, _)
InitRowsetReadersPollLate(it, rs, splits, i) ==
    IF i > Len(splits) THEN [status |-> "OK", it |-> it, rs |-> rs]
    ELSE LET added == [it EXCEPT !.inited = Append(@, i), !.children = Append(@, i)]
         IN IF is_cancelled(rs) THEN [status |-> "CANCELLED", it |-> added, rs |-> rs]
            ELSE InitRowsetReadersPollLate(added, Polled(rs), splits, i + 1)

\* The set-up step `stage` at split `at` answers something else than OK.
FaultAt(it, stage, at) == it.init_fault.stage = stage /\ it.init_fault.at = at

\* The loop of _init_collect_iter over the rowset splits (lines 127-147),
\* from split i on: poll the flag, init the rowset reader (any status but OK
\* is returned), add it as a child (END_OF_FILE: the split is passed over and
\* is no valid reader; any other status but OK is returned).
RECURSIVE InitRowsetReaders(_, _, _, _)
InitRowsetReaders(it, rs, splits, i) ==
    IF i > Len(splits) THEN [status |-> "OK", it |-> it, rs |-> rs]
    ELSE IF is_cancelled(rs) THEN [status |-> "CANCELLED", it |-> it, rs |-> rs]
    ELSE IF FaultAt(it, "rs_init", i)
    THEN [status |-> it.init_fault.status, it |-> it, rs |-> Polled(rs)]
    ELSE IF FaultAt(it, "add_child", i)
    THEN IF it.init_fault.status = "END_OF_FILE"
         THEN InitRowsetReaders([it EXCEPT !.inited = Append(@, i)],
                                Polled(rs), splits, i + 1)
         ELSE [status |-> it.init_fault.status,
               it |-> [it EXCEPT !.inited = Append(@, i)], rs |-> Polled(rs)]
    ELSE InitRowsetReaders([it EXCEPT !.inited = Append(@, i),
                                      !.children = Append(@, i)],
                           Polled(rs), splits, i + 1)

\* Lines 150-160: build the heap over the children and look at the first row.
BuildHeap(rd, p, it, source) ==
    [rd |-> rd,
     it |-> [it EXCEPT !.rows = IterYield(p, rd._is_rowsets_overlapping, source),
                       !.pos = 1, !.heap_built = TRUE]]

FirstRow(b, first, rs) ==
    [status |-> "OK",
     rd |-> [b.rd EXCEPT !._next_row = first.row,
                         !._eof = (first.status = "END_OF_FILE")],
     it |-> b.it, rs |-> rs]

\* _vcollect_iter.current_row(&_next_row) at line 155: the iterator's answer,
\* or a status other than OK with the row reference left as it was.
InitCurrentRow(it) ==
    IF FaultAt(it, "first_row", 0)
    THEN [status |-> it.init_fault.status, row |-> NoRow]
    ELSE current_row(it)

\* What _init_collect_iter does with the outcome l of its loop over the
\* splits: return its error, or build_heap's (152), or go on.
AfterRowsetReaders(rd, p, source, l) ==
    IF l.status # "OK"
    THEN [status |-> l.status, rd |-> rd, it |-> l.it, rs |-> l.rs]
    ELSE IF FaultAt(l.it, "build_heap", 0)
    THEN [status |-> l.it.init_fault.status, rd |-> rd, it |-> l.it, rs |-> l.rs]
    ELSE FirstRow(BuildHeap(rd, p, l.it, source),
                  InitCurrentRow(BuildHeap(rd, p, l.it, source).it), l.rs)

\* _init_collect_iter: capture the rowset readers (105-113), classify the
\* rowsets, set up their readers, build the iterator over them and look at
\* its first row.
_init_collect_iter(rd, p, splits, it, rs) ==
    IF FaultAt(it, "capture", 0)
    THEN [status |-> it.init_fault.status, rd |-> rd, it |-> it, rs |-> rs]
    ELSE AfterRowsetReaders(
            [rd EXCEPT !._is_rowsets_overlapping =
                           _rowsets_not_mono_asc_disjoint(splits)],
            p, it.source, InitRowsetReaders(it, rs, splits, 1))

\* Mutant of the selection: direct mode is looked at after the key model.
SelectNextBlockFuncKeysFirst(p) ==
    IF p.keys_type = "DUP_KEYS" THEN "_direct_next_block"
    ELSE IF p.keys_type = "UNIQUE_KEYS"
    THEN IF p.reader_type = "QUERY" /\ p.enable_unique_key_merge_on_write
         THEN "_direct_next_block"
         ELSE "_unique_key_next_block"
    ELSE IF p.direct_mode THEN "_direct_next_block"
    ELSE "_agg_key_next_block"

\* The strategy selected by BlockReader::init.
SelectNextBlockFunc(p) ==
    IF p.direct_mode THEN "_direct_next_block"
    ELSE IF p.keys_type = "DUP_KEYS" THEN "_direct_next_block"
    ELSE IF p.keys_type = "UNIQUE_KEYS"
    THEN IF p.reader_type = "QUERY" /\ p.enable_unique_key_merge_on_write
         THEN "_direct_next_block"
         ELSE "_unique_key_next_block"
    ELSE "_agg_key_next_block"

\* Mutant of the report: cloud mode is not looked at.
ReportErrorInCloudMode(p, errors, status) ==
    IF status # "OK" THEN Append(errors, status) ELSE errors

\* Tablet::report_error, reached only outside cloud mode.
ReportError(p, errors, status) ==
    IF ~p.is_cloud_mode /\ status # "OK" THEN Append(errors, status) ELSE errors

\* What init returns: its status, and the status it reported to the tablet.
InitResult(c, rd, status, reported) ==
    [status |-> status, rd |-> rd, it |-> c.it, rs |-> c.rs, reported |-> reported]

AfterAggState(c, a) == InitResult(c, a.rd, a.status, "OK")

\* Lines 226-262, c being the outcome of _init_collect_iter. _init_agg_state
\* reads _next_row.block (169): with a row reference that was never set its
\* behaviour is undefined.
AfterCollectIter(c, p) ==
    IF c.status # "OK" THEN InitResult(c, c.rd, c.status, c.status)
    ELSE IF SelectNextBlockFunc(p) = "_agg_key_next_block"
    THEN IF ~c.rd._eof /\ c.rd._next_row = NoRow
         THEN InitResult(c, [c.rd EXCEPT !._next_block_func = SelectNextBlockFunc(p)],
                         "UNDEFINED", "OK")
         ELSE AfterAggState(c, _init_agg_state(
                [c.rd EXCEPT !._next_block_func = SelectNextBlockFunc(p)], p))
    ELSE InitResult(c, [c.rd EXCEPT !._next_block_func = SelectNextBlockFunc(p)],
                    "OK", "OK")

\* BlockReader::init
init(rd, p, splits, it, rs) ==
    AfterCollectIter(_init_collect_iter(rd, p, splits, it, rs), p)

InitReader ==
    /\ pc = "constructed"
    /\ LET r == init(reader, params, rs_splits, iter, runtime_state)
       IN /\ reader' = r.rd
          /\ iter' = r.it
          /\ runtime_state' = r.rs
          /\ res' = r.status
          /\ pc' = IF r.status = "OK" THEN "ready"
                   ELSE IF r.status = "UNDEFINED" THEN "undefined"
                   ELSE "init_failed"
          /\ tablet_errors' = ReportError(params, tablet_errors, r.reported)
    /\ UNCHANGED <<params, rs_splits, block, eof, call, delivered, warm_up>>


\* ------------------------------------------------- the state of one call
\* block->mutate_columns(): the block's own columns, made writable; a row
\* appended to them is a row of the block.
mutate_columns(blk) == blk

\* A next call works on the reader, the iterator, the columns of the caller's
\* block, its local counters and the caller's end-of-stream variable.
\* `pulled` counts the rows it pulled, `hit_eof` records that the iterator
\* answered END_OF_FILE, `status` holds the error it answered, if any,
\* `flushes` and `ranges` list the _update_agg_value calls made, in order,
\* `updates` the _update_agg_data calls and `pulls` the buffered refs at each
\* pull of the AGG_KEYS loop.
CallState(rd, it, blk, e) ==
    [rd |-> rd, it |-> it, columns |-> mutate_columns(blk), target_block_row |-> 0,
     merged_row |-> 0, eof |-> e, pulled |-> 0, hit_eof |-> FALSE, status |-> "OK",
     flushes |-> <<>>, updates |-> <<>>, ranges |-> <<>>, pulls |-> <<>>]

\* The columns _normal_columns_idx names: every column except, on an
\* aggregate table, the value column.
NormalPart(row, p) ==
    IF p.keys_type = "AGG_KEYS"
    THEN [id |-> row.id, key |-> row.key, ver |-> row.ver, del |-> row.del]
    ELSE [id |-> row.id, key |-> row.key, ver |-> row.ver, del |-> row.del,
          val |-> row.val]

\* Mutant of _insert_data_normal: the row goes in front of the rows already there.
InsertDataNormalFront(cs, p) ==
    [cs EXCEPT !.columns.normal = <<NormalPart(cs.rd._next_row, p)>> \o @]

\* _insert_data_normal: append the current row's normal columns.
_insert_data_normal(cs, p) ==
    [cs EXCEPT !.columns.normal = Append(@, NormalPart(cs.rd._next_row, p))]

\* Mutant of the pull: the row the iterator steps to is not taken over.
PullNextRowKeepsRow(cs) ==
    LET r == IterNextRow(cs.it)
    IN IF r.status = "END_OF_FILE"
       THEN [cs EXCEPT !.it = r.it, !.hit_eof = TRUE]
       ELSE IF r.status # "OK"
       THEN [cs EXCEPT !.it = r.it, !.status = r.status]
       ELSE [cs EXCEPT !.it = r.it, !.pulled = @ + 1]

\* _vcollect_iter.next(&_next_row) inside a call.
PullNextRow(cs) ==
    LET r == IterNextRow(cs.it)
    IN IF r.status = "END_OF_FILE"
       THEN [cs EXCEPT !.it = r.it, !.hit_eof = TRUE]
       ELSE IF r.status # "OK"
       THEN [cs EXCEPT !.it = r.it, !.status = r.status]
       ELSE [cs EXCEPT !.it = r.it, !.rd._next_row = r.row, !.pulled = @ + 1]

\* The rows of a block as the caller reads them: row i of every column.
BlockRowsOf(blk, p) ==
    [i \in 1..Len(blk.normal) |->
        IF p.keys_type = "AGG_KEYS" /\ ~TakesDirect(p)
        THEN [id |-> blk.normal[i].id, key |-> blk.normal[i].key,
              ver |-> blk.normal[i].ver, del |-> blk.normal[i].del,
              val |-> IF i <= Len(blk.agg) THEN blk.agg[i] ELSE -1]
        ELSE blk.normal[i]]

\* Block::rows()
BlockRowCount(blk) == Len(blk.normal)

\* -------------------------------------------------------- direct strategy
FullRow(row) ==
    [id |-> row.id, key |-> row.key, ver |-> row.ver, del |-> row.del, val |-> row.val]

\* The bookkeeping of a call.
CallRecord(strategy, e, entry_eof, gathered, pulled, hit_eof, filtered, entry_pos) ==
    [strategy |-> strategy, eof_in |-> e, entry_eof |-> entry_eof,
     gathered |-> gathered, pulled |-> pulled, hit_eof |-> hit_eof,
     filtered |-> filtered, entry_pos |-> entry_pos, flushes |-> <<>>,
     updates |-> <<>>, ranges |-> <<>>, pulls |-> <<>>]

\* Lines 270-279: the iterator's block r goes to the caller as it is.
DirectReturn(rd, it, p, blk, e, r, is_eof, status) ==
    [rd |-> [rd EXCEPT !._eof = is_eof,
                       !._block_row_locations =
                           IF p.record_rowids THEN current_block_row_locations(r.rows)
                           ELSE @],
     it |-> r.it,
     block |-> [blk EXCEPT !.normal = @ \o [i \in 1..Len(r.rows) |-> FullRow(r.rows[i])]],
     eof |-> is_eof, res |-> status,
     call |-> CallRecord("_direct_next_block", e, rd._eof,
                         blk.normal \o [i \in 1..Len(r.rows) |-> FullRow(r.rows[i])],
                         Len(r.rows), is_eof, FALSE, it.pos)]

\* Lines 267-269: the iterator's error is returned before *eof is written.
DirectError(rd, it, blk, e, r) ==
    [rd |-> rd, it |-> r.it, block |-> blk, eof |-> e, res |-> r.status,
     call |-> CallRecord("_direct_next_block", e, rd._eof, blk.normal, 0, FALSE, FALSE,
                         it.pos)]

DirectForwardsStatus(rd, it, p, blk, e, r) ==
    DirectReturn(rd, it, p, blk, e, r, r.status = "END_OF_FILE", r.status)

\* Mutant of _direct_next_block: the iterator's status is returned as it is.
DirectNextBlockForwardsStatus(rd, it, p, blk, e) ==
    DirectForwardsStatus(rd, it, p, blk, e, IterNextBlock(it, p.batch_size))

DirectEofEarly(rd, it, p, blk, e, r) ==
    DirectReturn(rd, it, p, blk, e, r,
                 r.status = "END_OF_FILE" \/ r.it.pos > Len(r.it.rows), "OK")

\* Mutant of _direct_next_block: end_of_stream is set with the last rows.
DirectNextBlockEofEarly(rd, it, p, blk, e) ==
    DirectEofEarly(rd, it, p, blk, e, IterNextBlock(it, p.batch_size))

\* What _direct_next_block does with the iterator's answer r.
DirectAfterNext(rd, it, p, blk, e, r) ==
    IF r.status # "OK" /\ r.status # "END_OF_FILE"
    THEN DirectError(rd, it, blk, e, r)
    ELSE DirectReturn(rd, it, p, blk, e, r, r.status = "END_OF_FILE", "OK")

\* BlockReader::_direct_next_block
_direct_next_block(rd, it, p, blk, e) ==
    DirectAfterNext(rd, it, p, blk, e, IterNextBlock(it, p.batch_size))

\* -------------------------------------------------- UNIQUE_KEYS strategy
DefaultRowLocation == [rowset |-> 0, row_id |-> 0]

\* std::vector::resize
Resize(s, n, fill) == [i \in 1..n |-> IF i <= Len(s) THEN s[i] ELSE fill]

\* Mutant of the loop: the batch-size test comes before the pull, so a full
\* batch leaves the row just emitted as the current row.
RECURSIVE UniqueLoopStopBeforePull(_, _)
UniqueLoopStopBeforePull(cs, p) ==
    LET c1 == _insert_data_normal(cs, p)
        c2 == IF p.record_rowids
              THEN [c1 EXCEPT !.rd._block_row_locations[c1.target_block_row + 1] =
                                  current_row_location(c1.it)]
              ELSE c1
        c3 == [c2 EXCEPT !.target_block_row = @ + 1]
        c4 == PullNextRow(c3)
    IN IF c3.target_block_row >= p.batch_size THEN c3
       ELSE IF c4.hit_eof
       THEN [c4 EXCEPT !.rd._eof = TRUE, !.eof = TRUE,
                       !.rd._block_row_locations =
                           IF p.record_rowids THEN Resize(@, c4.target_block_row,
                                                          DefaultRowLocation)
                           ELSE @]
       ELSE UniqueLoopStopBeforePull(c4, p)

\* Mutant of the loop: the row locations are not cut to the rows gathered
\* when the iterator ends.
RECURSIVE UniqueLoopNoShrink(_, _)
UniqueLoopNoShrink(cs, p) ==
    LET c1 == _insert_data_normal(cs, p)
        c2 == IF p.record_rowids
              THEN [c1 EXCEPT !.rd._block_row_locations[c1.target_block_row + 1] =
                                  current_row_location(c1.it)]
              ELSE c1
        c3 == [c2 EXCEPT !.target_block_row = @ + 1]
        c4 == PullNextRow(c3)
    IN IF c4.hit_eof
       THEN [c4 EXCEPT !.rd._eof = TRUE, !.eof = TRUE]
       ELSE IF c4.target_block_row < p.batch_size THEN UniqueLoopNoShrink(c4, p)
       ELSE c4

\* The do-while loop of _unique_key_next_block (lines 349-374).
RECURSIVE UniqueLoop(_, _)
UniqueLoop(cs, p) ==
    LET c1 == _insert_data_normal(cs, p)
        c2 == IF p.record_rowids
              THEN [c1 EXCEPT !.rd._block_row_locations[c1.target_block_row + 1] =
                                  current_row_location(c1.it)]
              ELSE c1
        c3 == [c2 EXCEPT !.target_block_row = @ + 1]
        c4 == PullNextRow(c3)
    IN IF c4.hit_eof
       THEN [c4 EXCEPT !.rd._eof = TRUE, !.eof = TRUE,
                       !.rd._block_row_locations =
                           IF p.record_rowids THEN Resize(@, c4.target_block_row,
                                                          DefaultRowLocation)
                           ELSE @]
       ELSE IF c4.status # "OK" THEN c4
       ELSE IF c4.target_block_row < p.batch_size THEN UniqueLoop(c4, p)
       ELSE c4

\* Block::filter_block: keep the rows whose filter byte is nonzero.
filter_block(rows, filter) == SelectIdx(rows, LAMBDA i : filter[i] # 0)

\* Mutant of the filter byte: rows with a zero delete sign are dropped.
DeleteFilterByteInverted(del) == IF del = 0 THEN 0 ELSE 1

\* The filter byte of a row: 1 when its delete sign is zero.
DeleteFilterByte(del) == IF del = 0 THEN 1 ELSE 0

\* Mutant of the delete filter: the delete-sign index is not looked at.
UniqueDeleteFilterNoIdxCheck(cs, p) ==
    IF p.delete_sign_available
    THEN LET n == cs.target_block_row
             rows == cs.columns.normal
             filter_data == [i \in 1..n |-> DeleteFilterByte(rows[i].del)]
             kept == filter_block(rows, filter_data)
         IN [rd |-> [cs.rd EXCEPT !.rows_del_filtered = @ + (n - Len(kept))],
             block |-> [cs.columns EXCEPT !.normal = kept],
             filtered |-> TRUE, status |-> "OK"]
    ELSE [rd |-> cs.rd, block |-> cs.columns, filtered |-> FALSE, status |-> "OK"]

\* Mutant of the delete filter: an invalid delete-sign index is an internal error.
UniqueDeleteFilterInvalidIdxFails(cs, p) ==
    IF p.delete_sign_available
    THEN IF p.delete_sign_idx <= 0 \/ p.delete_sign_idx >= NumColumns
         THEN [rd |-> cs.rd, block |-> cs.columns, filtered |-> FALSE,
               status |-> "INTERNAL_ERROR"]
         ELSE LET n == cs.target_block_row
                  rows == cs.columns.normal
                  filter_data == [i \in 1..n |-> DeleteFilterByte(rows[i].del)]
                  locs == IF p.record_rowids
                          THEN [i \in DOMAIN cs.rd._block_row_locations |->
                                  IF i <= n /\ filter_data[i] = 0
                                  THEN [cs.rd._block_row_locations[i] EXCEPT !.row_id = -1]
                                  ELSE cs.rd._block_row_locations[i]]
                          ELSE cs.rd._block_row_locations
                  kept == filter_block(rows, filter_data)
              IN [rd |-> [cs.rd EXCEPT !._block_row_locations = locs,
                                       !.rows_del_filtered = @ + (n - Len(kept))],
                  block |-> [cs.columns EXCEPT !.normal = kept],
                  filtered |-> TRUE, status |-> "OK"]
    ELSE [rd |-> cs.rd, block |-> cs.columns, filtered |-> FALSE, status |-> "OK"]

\* Mutant of the delete filter: the filtered rows are counted, like
\* delete_count, only when row locations are recorded.
UniqueDeleteFilterCountsWhenRecording(cs, p) ==
    IF p.delete_sign_available
    THEN IF p.delete_sign_idx <= 0 \/ p.delete_sign_idx >= NumColumns
         THEN [rd |-> cs.rd, block |-> cs.columns, filtered |-> FALSE, status |-> "OK"]
         ELSE LET n == cs.target_block_row
                  rows == cs.columns.normal
                  filter_data == [i \in 1..n |-> DeleteFilterByte(rows[i].del)]
                  locs == IF p.record_rowids
                          THEN [i \in DOMAIN cs.rd._block_row_locations |->
                                  IF i <= n /\ filter_data[i] = 0
                                  THEN [cs.rd._block_row_locations[i] EXCEPT !.row_id = -1]
                                  ELSE cs.rd._block_row_locations[i]]
                          ELSE cs.rd._block_row_locations
                  kept == filter_block(rows, filter_data)
              IN [rd |-> [cs.rd EXCEPT !._block_row_locations = locs,
                                       !.rows_del_filtered =
                                           IF p.record_rowids THEN @ + (n - Len(kept))
                                           ELSE @],
                  block |-> [cs.columns EXCEPT !.normal = kept],
                  filtered |-> TRUE, status |-> "OK"]
    ELSE [rd |-> cs.rd, block |-> cs.columns, filtered |-> FALSE, status |-> "OK"]

\* Lines 376-419: filter delete-signed rows and hand the columns back; with
\* an invalid delete-sign index the call returns OK (line 383) with the
\* columns as they are.
UniqueDeleteFilter(cs, p) ==
    IF p.delete_sign_available
    THEN IF p.delete_sign_idx <= 0 \/ p.delete_sign_idx >= NumColumns
         THEN [rd |-> cs.rd, block |-> cs.columns, filtered |-> FALSE, status |-> "OK"]
         ELSE LET n == cs.target_block_row
                  rows == cs.columns.normal
                  filter_data == [i \in 1..n |-> DeleteFilterByte(rows[i].del)]
                  locs == IF p.record_rowids
                          THEN [i \in DOMAIN cs.rd._block_row_locations |->
                                  IF i <= n /\ filter_data[i] = 0
                                  THEN [cs.rd._block_row_locations[i] EXCEPT !.row_id = -1]
                                  ELSE cs.rd._block_row_locations[i]]
                          ELSE cs.rd._block_row_locations
                  kept == filter_block(rows, filter_data)
              IN [rd |-> [cs.rd EXCEPT !._block_row_locations = locs,
                                       !.rows_del_filtered = @ + (n - Len(kept))],
                  block |-> [cs.columns EXCEPT !.normal = kept],
                  filtered |-> TRUE, status |-> "OK"]
    ELSE [rd |-> cs.rd, block |-> cs.columns, filtered |-> FALSE, status |-> "OK"]

\* What a strategy returns from the state cs of its call.
StrategyReturn(strategy, cs, rd, blk, e, filtered, entry_pos) ==
    [rd |-> rd, it |-> cs.it, block |-> blk, eof |-> cs.eof, res |-> cs.status,
     call |-> [CallRecord(strategy, e, FALSE, cs.columns.normal, cs.pulled,
                          cs.hit_eof, filtered, entry_pos)
                  EXCEPT !.flushes = cs.flushes, !.updates = cs.updates,
                         !.ranges = cs.ranges, !.pulls = cs.pulls]]

\* Mutant of the entry guard: it returns without writing *eof.
EntryEofReturnEofNotWritten(strategy, rd, it, blk, e) ==
    [rd |-> rd, it |-> it, block |-> blk, eof |-> e, res |-> "OK",
     call |-> CallRecord(strategy, e, TRUE, <<>>, 0, FALSE, FALSE, it.pos)]

\* The return at a strategy's entry guard (lines 287-290, 338-341).
EntryEofReturn(strategy, rd, it, blk, e) ==
    [rd |-> rd, it |-> it, block |-> blk, eof |-> TRUE, res |-> "OK",
     call |-> CallRecord(strategy, e, TRUE, <<>>, 0, FALSE, FALSE, it.pos)]

\* The return after the delete filter, with the filter's outcome f.
UniqueFiltered(cs, f, e, entry_pos) ==
    StrategyReturn("_unique_key_next_block", [cs EXCEPT !.status = f.status], f.rd,
                   f.block, e, f.filtered, entry_pos)

\* What _unique_key_next_block does once its loop has left cs: the error
\* return of line 372, or lines 376-420.
UniqueAfterLoop(cs, p, e, entry_pos) ==
    IF cs.status # "OK"
    THEN StrategyReturn("_unique_key_next_block", cs, cs.rd, cs.columns, e, FALSE,
                        entry_pos)
    ELSE UniqueFiltered(cs, UniqueDeleteFilter(cs, p), e, entry_pos)

\* Lines 343-347.
UniqueCallState(rd, it, p, blk, e) ==
    IF p.record_rowids
    THEN [CallState(rd, it, blk, e) EXCEPT
              !.rd._block_row_locations = Resize(@, p.batch_size, DefaultRowLocation)]
    ELSE CallState(rd, it, blk, e)

\* BlockReader::_unique_key_next_block
_unique_key_next_block(rd, it, p, blk, e) ==
    IF rd._eof
    THEN EntryEofReturn("_unique_key_next_block", rd, it, blk, e)
    ELSE UniqueAfterLoop(UniqueLoop(UniqueCallState(rd, it, p, blk, e), p), p, e, it.pos)


\* ----------------------------------------------------- AGG_KEYS strategy
\* add_batch_range(begin, end, place, column): fold rows begin..end (0-based,
\* inclusive) of the stored column into the state, in row order.
add_batch_range(place, column, begin, end) ==
    place \o [i \in 1..(end - begin + 1) |-> column[begin + i]]

\* insert_result_into of the reader's SUM function: the sum of what the
\* state has folded in.
insert_result_into(place) == SumSeq(place)

\* _get_next_row_same: the flag on the row reference, else the block's same-bit.
_get_next_row_same(rd) ==
    IF rd._next_row.is_same THEN TRUE ELSE rd._next_row.same_bit

\* _copy_agg_data: write the value of buffered ref i to row i of the stored
\* column (replace_column_data) and drop the refs; returns the rows copied.
_copy_agg_data(rd) ==
    LET copy_size == Len(rd._stored_row_ref)
        dst == rd._stored_data_columns
    IN [rd |-> [rd EXCEPT !._stored_data_columns =
                             [i \in 1..Max(Len(dst), copy_size) |->
                                IF i <= copy_size THEN rd._stored_row_ref[i].val
                                ELSE dst[i]],
                          !._stored_row_ref = <<>>],
        copy_size |-> copy_size]

\* Mutant of _update_agg_value: every flush finalizes, open run or not.
UpdateAggValueAlwaysClose(cs, begin, end, is_close) ==
    LET place == cs.rd._agg_places[1]
        added == IF begin <= end
                 THEN add_batch_range(place, cs.rd._stored_data_columns, begin, end)
                 ELSE place
    IN [cs EXCEPT !.columns.agg = Append(@, insert_result_into(added)),
                  !.rd._agg_places[1] = EmptyPlace]

\* Mutant of _update_agg_value: a non-finalizing flush resets the state.
UpdateAggValueDropOpen(cs, begin, end, is_close) ==
    LET place == cs.rd._agg_places[1]
        added == IF begin <= end
                 THEN add_batch_range(place, cs.rd._stored_data_columns, begin, end)
                 ELSE place
    IN IF is_close
       THEN [cs EXCEPT !.columns.agg = Append(@, insert_result_into(added)),
                       !.rd._agg_places[1] = EmptyPlace]
       ELSE [cs EXCEPT !.rd._agg_places[1] = EmptyPlace]

\* What one _update_agg_value call did: whether it finalized, whether it
\* cleared the arena, and the states and the arena it left.
Flush(is_close, cleared, places, arena) ==
    [is_close |-> is_close, cleared |-> cleared, places |-> places, arena |-> arena]

\* Mutant of _update_agg_value: the arena is cleared by every flush.
UpdateAggValueClearAlways(cs, place, arena, is_close) ==
    IF is_close
    THEN [cs EXCEPT !.columns.agg = Append(@, insert_result_into(place)),
                    !.rd._agg_places[1] = EmptyPlace,
                    !.rd._arena = <<>>,
                    !.flushes = Append(@, Flush(TRUE, TRUE, <<EmptyPlace>>, <<>>))]
    ELSE [cs EXCEPT !.rd._agg_places[1] = place,
                    !.rd._arena = <<>>,
                    !.flushes = Append(@, Flush(FALSE, TRUE, <<place>>, <<>>))]

\* Lines 521-529, `place` and `arena` being the state and the arena after
\* add_batch_range: a closing flush inserts the result, resets the state and
\* then clears the arena; any other leaves both.
UpdateAggValueClose(cs, place, arena, is_close) ==
    IF is_close
    THEN [cs EXCEPT !.columns.agg = Append(@, insert_result_into(place)),
                    !.rd._agg_places[1] = EmptyPlace,
                    !.rd._arena = <<>>,
                    !.flushes = Append(@, Flush(TRUE, TRUE, <<EmptyPlace>>, <<>>))]
    ELSE [cs EXCEPT !.rd._agg_places[1] = place,
                    !.rd._arena = arena,
                    !.flushes = Append(@, Flush(FALSE, FALSE, <<place>>, arena))]

\* The bookkeeping of one _update_agg_value call: the rows it was given and
\* the aggregate state before and after its add_batch_range.
RangeLogged(cs, begin, end, after) ==
    [cs EXCEPT !.ranges = Append(@, [begin |-> begin, end |-> end,
                                     before |-> cs.rd._agg_places[1],
                                     after |-> after])]

\* _update_agg_value: fold rows begin..end into the state, the function
\* taking what memory it needs for them from the arena; when the run is
\* closed, write the result to the output column and reset the state.
_update_agg_value(cs, begin, end, is_close) ==
    IF begin <= end
    THEN UpdateAggValueClose(
            RangeLogged(cs, begin, end,
                        add_batch_range(cs.rd._agg_places[1], cs.rd._stored_data_columns,
                                        begin, end)),
            add_batch_range(cs.rd._agg_places[1], cs.rd._stored_data_columns,
                            begin, end),
            add_batch_range(cs.rd._arena, cs.rd._stored_data_columns, begin, end),
            is_close)
    ELSE UpdateAggValueClose(RangeLogged(cs, begin, end, cs.rd._agg_places[1]),
                             cs.rd._agg_places[1], cs.rd._arena, is_close)

\* Mutant of the loop over the closed runs: a run with no buffered row is
\* passed over.
RECURSIVE UpdateClosedRunsSkipEmpty(_, _, _)
UpdateClosedRunsSkipEmpty(cs, counters, counter_sum) ==
    IF counters = <<>> THEN [cs |-> cs, counter_sum |-> counter_sum]
    ELSE IF Head(counters) = 0
    THEN UpdateClosedRunsSkipEmpty(cs, Tail(counters), counter_sum)
    ELSE UpdateClosedRunsSkipEmpty(
            _update_agg_value(cs, counter_sum, counter_sum + Head(counters) - 1, TRUE),
            Tail(counters), counter_sum + Head(counters))

\* The loop over the closed runs in _update_agg_data (lines 456-460).
RECURSIVE UpdateClosedRuns(_, _, _)
UpdateClosedRuns(cs, counters, counter_sum) ==
    IF counters = <<>> THEN [cs |-> cs, counter_sum |-> counter_sum]
    ELSE UpdateClosedRuns(
            _update_agg_value(cs, counter_sum, counter_sum + Head(counters) - 1, TRUE),
            Tail(counters), counter_sum + Head(counters))

\* The bookkeeping of one _update_agg_data call: the refs buffered and the
\* run counters at its entry, and the place of its first _update_agg_value
\* call among those of the next call.
UpdateLogged(cs) ==
    [cs EXCEPT !.updates = Append(@, [refs |-> cs.rd._stored_row_ref,
                                      counters |-> cs.rd._agg_data_counters,
                                      last |-> cs.rd._last_agg_data_counter,
                                      first |-> Len(cs.ranges) + 1])]

\* _update_agg_data: copy the buffered rows, finalize every closed run and
\* fold the open run in without closing it.
_update_agg_data(cs) ==
    LET cp == _copy_agg_data(cs.rd)
        c1 == [UpdateLogged(cs) EXCEPT !.rd = cp.rd]
        u == UpdateClosedRuns(c1, c1.rd._agg_data_counters, 0)
        c2 == u.cs
        c3 == IF c2.rd._last_agg_data_counter # 0
              THEN [_update_agg_value(c2, u.counter_sum,
                                      u.counter_sum + c2.rd._last_agg_data_counter - 1,
                                      FALSE)
                        EXCEPT !.rd._last_agg_data_counter = 0]
              ELSE c2
    IN [c3 EXCEPT !.rd._agg_data_counters = <<>>]

\* Mutant of _append_agg_data: only the last row of a source block flushes.
AppendAggDataNoSizeFlush(cs, p) ==
    LET row == cs.rd._next_row
        c1 == [cs EXCEPT !.rd._stored_row_ref = Append(@, row),
                         !.rd._last_agg_data_counter = @ + 1]
        is_last == (row.block_rows = row.row_pos + 1)
    IN IF is_last THEN _update_agg_data(c1) ELSE c1

\* Mutant of _append_agg_data: only a buffer of batch_size refs flushes.
AppendAggDataNoLastFlush(cs, p) ==
    LET row == cs.rd._next_row
        c1 == [cs EXCEPT !.rd._stored_row_ref = Append(@, row),
                         !.rd._last_agg_data_counter = @ + 1]
    IN IF Len(c1.rd._stored_row_ref) = p.batch_size
       THEN _update_agg_data(c1)
       ELSE c1

\* _append_agg_data: buffer the current row; flush when it is the last row
\* of its source block or the buffer holds batch_size refs.
_append_agg_data(cs, p) ==
    LET row == cs.rd._next_row
        c1 == [cs EXCEPT !.rd._stored_row_ref = Append(@, row),
                         !.rd._last_agg_data_counter = @ + 1]
        is_last == (row.block_rows = row.row_pos + 1)
    IN IF is_last \/ Len(c1.rd._stored_row_ref) = p.batch_size
       THEN _update_agg_data(c1)
       ELSE c1

\* Mutant of the closing of a run: a zero is pushed for it.
CloseRunPushesZero(cs) ==
    [cs EXCEPT !.rd._agg_data_counters = Append(@, 0),
               !.rd._last_agg_data_counter = 0]

\* Lines 315-316 and 328-329: close the open run.
CloseRun(cs) ==
    [cs EXCEPT !.rd._agg_data_counters = Append(@, cs.rd._last_agg_data_counter),
               !.rd._last_agg_data_counter = 0]

\* Mutant of the loop: END_OF_FILE ends the loop without setting *eof.
RECURSIVE AggLoopEofNotReported(_, _)
AggLoopEofNotReported(cs, p) ==
    LET c1 == PullNextRow(cs)
    IN IF c1.hit_eof
       THEN [c1 EXCEPT !.rd._eof = TRUE]
       ELSE IF ~_get_next_row_same(c1.rd)
       THEN IF c1.target_block_row = p.batch_size
            THEN c1
            ELSE AggLoopEofNotReported(_append_agg_data(
                            [_insert_data_normal(CloseRun(c1), p)
                                EXCEPT !.target_block_row = @ + 1], p), p)
       ELSE AggLoopEofNotReported(
                _append_agg_data([c1 EXCEPT !.merged_row = @ + 1], p), p)

\* Mutant of the loop: a new key is appended whatever the block holds.
RECURSIVE AggLoopNoBatchLimit(_, _)
AggLoopNoBatchLimit(cs, p) ==
    LET c1 == PullNextRow(cs)
    IN IF c1.hit_eof
       THEN [c1 EXCEPT !.rd._eof = TRUE, !.eof = TRUE]
       ELSE IF ~_get_next_row_same(c1.rd)
       THEN AggLoopNoBatchLimit(_append_agg_data(
                            [_insert_data_normal(CloseRun(c1), p)
                                EXCEPT !.target_block_row = @ + 1], p), p)
       ELSE AggLoopNoBatchLimit(
                _append_agg_data([c1 EXCEPT !.merged_row = @ + 1], p), p)

\* Mutant of the loop: a full block ends the loop at the next row pulled,
\* same key or not.
RECURSIVE AggLoopStopWhenFull(_, _)
AggLoopStopWhenFull(cs, p) ==
    LET c1 == PullNextRow(cs)
    IN IF c1.hit_eof
       THEN [c1 EXCEPT !.rd._eof = TRUE, !.eof = TRUE]
       ELSE IF c1.status # "OK" THEN c1
       ELSE IF c1.target_block_row = p.batch_size THEN c1
       ELSE IF ~_get_next_row_same(c1.rd)
       THEN AggLoopStopWhenFull(_append_agg_data(
                            [_insert_data_normal(CloseRun(c1), p)
                                EXCEPT !.target_block_row = @ + 1], p), p)
       ELSE AggLoopStopWhenFull(
                _append_agg_data([c1 EXCEPT !.merged_row = @ + 1], p), p)

\* The bookkeeping of a pull of the loop: the refs buffered when it is made.
PullLogged(cs) == [cs EXCEPT !.pulls = Append(@, cs.rd._stored_row_ref)]

\* The while loop of _agg_key_next_block (lines 299-326).
RECURSIVE AggLoop(_, _)
AggLoop(cs, p) ==
    LET c1 == PullNextRow(PullLogged(cs))
    IN IF c1.hit_eof
       THEN [c1 EXCEPT !.rd._eof = TRUE, !.eof = TRUE]
       ELSE IF c1.status # "OK" THEN c1
       ELSE IF ~_get_next_row_same(c1.rd)
       THEN IF c1.target_block_row = p.batch_size
            THEN c1
            ELSE AggLoop(_append_agg_data(
                            [_insert_data_normal(CloseRun(c1), p)
                                EXCEPT !.target_block_row = @ + 1], p), p)
       ELSE AggLoop(_append_agg_data([c1 EXCEPT !.merged_row = @ + 1], p), p)

\* Mutant of the block's completion: the merged-rows counter is set to the
\* call's count, not raised by it.
AggFinishMergedRowsAssigned(cs, e, entry_pos) ==
    StrategyReturn("_agg_key_next_block", cs,
                   [cs.rd EXCEPT !._merged_rows = cs.merged_row], cs.columns, e,
                   FALSE, entry_pos)

\* Lines 328-334: close the last run, flush, hand the columns back.
AggFinish(cs, e, entry_pos) ==
    StrategyReturn("_agg_key_next_block", cs,
                   [cs.rd EXCEPT !._merged_rows = @ + cs.merged_row], cs.columns, e,
                   FALSE, entry_pos)

\* Mutant of the block's completion: the last run is closed at end-of-stream
\* only, and flushed open otherwise.
AggAfterLoopOpenLastRun(cs, e, entry_pos) ==
    IF cs.status # "OK"
    THEN StrategyReturn("_agg_key_next_block", cs, cs.rd, cs.columns, e, FALSE,
                        entry_pos)
    ELSE IF cs.hit_eof THEN AggFinish(_update_agg_data(CloseRun(cs)), e, entry_pos)
    ELSE AggFinish(_update_agg_data(cs), e, entry_pos)

\* What _agg_key_next_block does once its loop has left cs: the error return
\* of line 308, or lines 328-334.
AggAfterLoop(cs, e, entry_pos) ==
    IF cs.status # "OK"
    THEN StrategyReturn("_agg_key_next_block", cs, cs.rd, cs.columns, e, FALSE,
                        entry_pos)
    ELSE AggFinish(_update_agg_data(CloseRun(cs)), e, entry_pos)

\* Mutant of the block's opening: the current row is buffered for the
\* aggregate but its key is not written.
AggFirstRowNotInserted(cs, p) ==
    _append_agg_data([cs EXCEPT !.target_block_row = @ + 1], p)

\* Lines 292-297: the current row opens the block.
AggFirstRow(cs, p) ==
    _append_agg_data([_insert_data_normal(cs, p) EXCEPT !.target_block_row = @ + 1], p)

\* BlockReader::_agg_key_next_block
_agg_key_next_block(rd, it, p, blk, e) ==
    IF rd._eof
    THEN EntryEofReturn("_agg_key_next_block", rd, it, blk, e)
    ELSE AggAfterLoop(AggLoop(AggFirstRow(CallState(rd, it, blk, e), p), p), e, it.pos)

\* ------------------------------------------------------------ the caller
\* (this->*_next_block_func)(block, eof)
CallNextBlockFunc(rd, it, p, blk, e) ==
    IF rd._next_block_func = "_direct_next_block" THEN _direct_next_block(rd, it, p, blk, e)
    ELSE IF rd._next_block_func = "_unique_key_next_block"
    THEN _unique_key_next_block(rd, it, p, blk, e)
    ELSE _agg_key_next_block(rd, it, p, blk, e)

\* The UNIQUE_KEYS and AGG_KEYS strategies begin with _insert_data_normal,
\* which reads _next_row.block (424-429); with a row reference that init
\* never set this is a null dereference.
DerefsUnsetRow(rd) ==
    /\ rd._next_block_func # "_direct_next_block"
    /\ ~rd._eof
    /\ rd._next_row = NoRow

\* A call whose behaviour is undefined: the model records that and no more.
UndefinedCall(rd, it, blk, e) ==
    [rd |-> rd, it |-> it, block |-> blk, eof |-> e, res |-> "UNDEFINED", call |-> NoCall]

\* BlockReader::next_block_with_aggregation, called with a fresh block and
\* with the caller's end-of-stream variable holding e. The caller takes the
\* rows of a block returned with OK and gives the scan up on an error.
NextBlock(e) ==
    /\ pc = "ready"
    /\ LET r == IF DerefsUnsetRow(reader)
                THEN UndefinedCall(reader, iter, block, e)
                ELSE CallNextBlockFunc(reader, iter, params, EmptyBlock, e)
       IN /\ reader' = r.rd
          /\ iter' = r.it
          /\ block' = r.block
          /\ eof' = r.eof
          /\ res' = r.res
          /\ call' = r.call
          /\ delivered' = IF r.res = "OK" THEN delivered \o BlockRowsOf(r.block, params)
                          ELSE delivered
          /\ pc' = IF r.res = "OK" THEN "ready"
                   ELSE IF r.res = "UNDEFINED" THEN "undefined"
                   ELSE "next_failed"
          /\ tablet_errors' = IF r.res = "UNDEFINED" THEN tablet_errors
                              ELSE ReportError(params, tablet_errors, r.res)
    /\ UNCHANGED <<params, rs_splits, runtime_state, warm_up>>

Next ==
    \/ InitReader
    \/ \E e \in BOOLEAN : NextBlock(e)

Spec == Init /\ [][Next]_vars


\* ------------------------------------------------ warm_up_tablets
\* The job metas the manager may hold at most.
MaxJobs == 2

RequestTypes == {"SET_JOB", "SET_BATCH", "GET_CURRENT_JOB_STATE_AND_LEASE", "CLEAR_JOB"}

\* TWarmUpTabletsRequest
Requests ==
    [type : RequestTypes, job_id : {1, 2}, batch_id : {1, 2},
     job_metas : {<<>>, <<"meta1">>, <<"meta1", "meta2">>}]

\* What the manager answers to the handler's calls: the statuses of
\* check_and_set_job_id, check_and_set_batch_id and clear_job and the retry
\* flag check_and_set_batch_id sets. Any combination may be answered.
Answers ==
    [job_st : {"OK", "INTERNAL_ERROR"}, batch_st : {"OK", "INTERNAL_ERROR"},
     retry : BOOLEAN, clear_st : {"OK", "INTERNAL_ERROR"}]

\* The handler calls a function of the manager.
ManagerCall(w, name) == [w EXCEPT !.calls = Append(@, name)]

\* manager.add_job(request.job_metas)
add_job(w, job_metas) == [ManagerCall(w, "add_job") EXCEPT !.jobs = @ \o job_metas]

\* What the SET_BATCH case does after check_and_set_batch_id (lines 114-126).
AfterCheckBatch(w, req, ans) ==
    IF ~ans.retry /\ ans.batch_st = "OK"
    THEN [add_job(w, req.job_metas) EXCEPT !.st = ans.batch_st]
    ELSE [w EXCEPT !.st = ans.batch_st]

\* case SET_BATCH (lines 105-128).
SetBatch(w, req, ans) ==
    AfterCheckBatch(ManagerCall(w, "check_and_set_batch_id"), req, ans)

\* Mutant of case SET_JOB: it falls through whatever check_and_set_job_id
\* answered.
SetJobNoBreak(w, req, ans) ==
    SetBatch(ManagerCall(w, "check_and_set_job_id"), req, ans)

\* case SET_JOB (lines 94-104): a failure leaves the switch, success falls
\* through to SET_BATCH.
SetJob(w, req, ans) ==
    IF ans.job_st # "OK"
    THEN [ManagerCall(w, "check_and_set_job_id") EXCEPT !.st = ans.job_st]
    ELSE SetBatch(ManagerCall(w, "check_and_set_job_id"), req, ans)

\* case GET_CURRENT_JOB_STATE_AND_LEASE (lines 129-143).
GetCurrentJobStateAndLease(w) ==
    [ManagerCall(w, "get_current_job_state") EXCEPT !.response.job_state_set = TRUE]

\* case CLEAR_JOB (lines 144-150).
ClearJob(w, ans) == [ManagerCall(w, "clear_job") EXCEPT !.st = ans.clear_st]

\* The switch of lines 93-153.
SwitchOnType(w, req, ans) ==
    IF req.type = "SET_JOB" THEN SetJob(w, req, ans)
    ELSE IF req.type = "SET_BATCH" THEN SetBatch(w, req, ans)
    ELSE IF req.type = "GET_CURRENT_JOB_STATE_AND_LEASE"
    THEN GetCurrentJobStateAndLease(w)
    ELSE ClearJob(w, ans)

\* st.to_thrift(&response.status) (line 154).
ToThrift(w) == [w EXCEPT !.response.status = w.st]

\* CloudBackendService::warm_up_tablets on a fresh response, st being OK as
\* constructed.
warm_up_tablets(w, req, ans) ==
    ToThrift(SwitchOnType([w EXCEPT !.request = req, !.answers = ans,
                                    !.calls = <<>>, !.st = "OK",
                                    !.response = [status |-> "none",
                                                  job_state_set |-> FALSE]],
                          req, ans))

\* A warm-up request is handled.
WarmUpTablets ==
    /\ \E req \in Requests : \E ans \in Answers :
          /\ Len(warm_up.jobs) + Len(req.job_metas) <= MaxJobs
          /\ warm_up' = warm_up_tablets(warm_up, req, ans)
    /\ UNCHANGED <<params, rs_splits, iter, reader, block, eof, res, call, delivered,
                   pc, runtime_state, tablet_errors>>

NextWarmUp == WarmUpTablets

\* A backend that handles warm-up requests, no scan being read.
InitWarmUp ==
    InitWith(Params("DUP_KEYS", FALSE, "QUERY", FALSE, 1, FALSE, FALSE, -1, FALSE),
             ScanSplitLists1, <<>>)

SpecWarmUp == InitWarmUp /\ [][NextWarmUp]_vars

\* ------------------------------------------- the classifier's own scans
\* A DUP_KEYS query whose rowset list is any list of up to MaxSplits rowsets
\* and whose rows are all pruned upstream, so that the iterator yields none.
InitDisjoint ==
    \E splits \in SplitLists :
        InitWith(Params("DUP_KEYS", FALSE, "QUERY", FALSE, 1, FALSE, FALSE, -1, FALSE),
                 splits, <<>>)

SpecDisjoint == InitDisjoint /\ [][Next]_vars

\* ------------------------------------ DUP_KEYS scans of disjoint rowsets
\* Rowset i holds n[i] rows, all of the one-byte key <<i>>, so that the
\* rowsets' key ranges are disjoint and ascending.
FastPathSplits(n) == [i \in DOMAIN n |-> Split(n[i], FALSE, TRUE, <<i>>, <<i>>, FALSE)]

\* The rows of those rowsets, rowset after rowset.
RECURSIVE FastPathRaw(_)
FastPathRaw(n) ==
    IF n = <<>> THEN <<>>
    ELSE [j \in 1..Head(n) |-> [same |-> j > 1, del |-> 0, last |-> FALSE]]
         \o FastPathRaw(Tail(n))

RowCounts ==
    {n \in UNION {[1..k -> 0..MaxRows] : k \in 1..MaxSplits} : SumSeq(n) \in 1..MaxRows}

\* DUP_KEYS queries over such rowsets with a batch size that divides the
\* number of rows.
InitFastPath ==
    \E n \in RowCounts : \E bs \in BatchSizes : \E rec \in BOOLEAN :
        /\ SumSeq(n) % bs = 0
        /\ InitWith(Params("DUP_KEYS", FALSE, "QUERY", FALSE, bs, rec, FALSE, -1, FALSE),
                    FastPathSplits(n), FastPathRaw(n))

SpecFastPath == InitFastPath /\ [][Next]_vars

\* ------------------------------------------------ scans that meet faults
FaultBatchSizes == {1, MaxBatch - 1}

\* The aggregated columns of a table: one whose function resolves, one whose
\* function does not, or one of each.
AggColumnLists(kt) ==
    IF kt = "AGG_KEYS" THEN {<<"SUM">>, <<"UNKNOWN">>, <<"SUM", "UNKNOWN">>} ELSE {<<>>}

\* Every combination of key model, direct mode, reader type and merge-on-write,
\* in and outside cloud mode.
FaultParams ==
    {[Params(c[1], c[2], c[3], c[4], bs, FALSE, FALSE, -1, FALSE)
        EXCEPT !.agg_columns = ac, !.is_cloud_mode = cm] :
        c \in KeysTypes \X BOOLEAN \X {"QUERY", "COMPACTION"} \X BOOLEAN,
        bs \in FaultBatchSizes,
        ac \in {<<"SUM">>, <<"UNKNOWN">>, <<"SUM", "UNKNOWN">>, <<>>},
        cm \in BOOLEAN}

\* The faults of one scan: the flag raised before one of init's polls or
\* right after init, or one failing iterator call, or none.
Faults ==
    {<<k, 0>> : k \in -1..2} \cup {<<-1, n>> : n \in 1..MaxBatch}

FaultRaw == {r \in RawSeqs(RawRowSet(BOOLEAN, {0}, {FALSE})) : Len(r) <= MaxBatch}

InitFaults ==
    \E p \in FaultParams : \E raw \in FaultRaw : \E splits \in ScanSplitLists :
    \E f \in Faults :
        /\ p.agg_columns \in AggColumnLists(p.keys_type)
        /\ InitWithFaults(p, splits, raw, f[1], f[2])

SpecFaults == InitFaults /\ [][Next]_vars

\* ------------------------------------ compactions with a delete filter
\* Compactions of a UNIQUE_KEYS table that filter delete-signed rows: the
\* delete-sign column missing (-1), in its place, or beyond the columns.
DeleteFilterParams ==
    {Params("UNIQUE_KEYS", FALSE, "COMPACTION", TRUE, bs, rec, TRUE, idx, FALSE) :
        bs \in BatchSizes, rec \in BOOLEAN, idx \in DeleteSignIdxs}

\* Such a scan, no iterator call failing or one of the first MaxBatch failing.
InitDeleteFilter ==
    \E p \in DeleteFilterParams :
    \E raw \in RawSeqs(RawRowSet(BOOLEAN, {0, 1}, {FALSE})) :
    \E fail_in \in 0..MaxBatch :
        InitWithFaults(p, ScanSplitLists1, raw, -1, fail_in)

SpecDeleteFilter == InitDeleteFilter /\ [][Next]_vars

\* ------------------------------------------------------- AGG_KEYS scans
\* Aggregating scans over every row stream: key-groups of every length,
\* source blocks ending anywhere.
InitAgg ==
    \E p \in AggParams : \E raw \in RawInputs(p) : \E splits \in ScanSplitLists :
        InitWith(p, splits, raw)

SpecAgg == InitAgg /\ [][Next]_vars

\* ------------------------------------------- scans that merge no rows
\* Scans of the direct and of the UNIQUE_KEYS strategy, the latter with and
\* without a delete filter.
InitPassThrough ==
    \E p \in DirectParams \cup UniqueParams : \E raw \in RawInputs(p) :
        InitWith(p, ScanSplitLists1, raw)

SpecPassThrough == InitPassThrough /\ [][Next]_vars

\* ------------------------------------------ scans whose set-up fails
InitFaultStatuses == {"IO_ERROR", "END_OF_FILE"}

\* The set-up steps that may answer something else than OK: capturing the
\* readers, a rowset reader's init, add_child, build_heap, the first
\* current_row (whose END_OF_FILE is the scan without rows).
InitFaultsOf(splits) ==
    {NoInitFault, InitFault("capture", 0, "IO_ERROR"),
     InitFault("build_heap", 0, "IO_ERROR"), InitFault("first_row", 0, "IO_ERROR")}
    \cup {InitFault(stage, at, status) :
            stage \in {"rs_init", "add_child"}, at \in DOMAIN splits,
            status \in InitFaultStatuses}

\* Every key model, in and outside cloud mode.
InitFaultParams ==
    {[Params(kt, FALSE, "QUERY", FALSE, bs, FALSE, FALSE, -1, FALSE)
        EXCEPT !.is_cloud_mode = cm] :
        kt \in KeysTypes, bs \in FaultBatchSizes, cm \in BOOLEAN}

InitSetUpFaults ==
    \E p \in InitFaultParams : \E raw \in FaultRaw : \E splits \in ScanSplitLists :
    \E f \in InitFaultsOf(splits) :
        InitState(p, splits, raw, -1, 0, f)

SpecSetUpFaults == InitSetUpFaults /\ [][Next]_vars

\* ------------------------------------- scans read to their end
\* Merging scans, UNIQUE_KEYS and AGG_KEYS, whose iterator does not fail.
InitProgress ==
    \E p \in UniqueParams \cup AggParams : \E raw \in RawInputs(p) :
        InitWith(p, ScanSplitLists1, raw)

\* The scanner has not been told of the end of the stream: it calls
\* next_block_with_aggregation again.
ScannerReads == pc = "ready" /\ ~(reader._eof /\ eof)

\* Weak fairness of the scanner's calls, with its ENABLED written out: a call
\* can always be made on a ready scan, so a scan does not stay for ever where
\* the scanner reads without a step being taken from there.
ScannerReadsOn == []<>~ScannerReads \/ []<><<ScannerReads>>_vars

\* init is called on a constructed reader and returns.
InitReturns == pc = "constructed" /\ pc' \in {"ready", "init_failed", "undefined"}

\* The scanner calls init and then reads until it is told of the end.
SpecProgress ==
    /\ InitProgress
    /\ [][Next]_vars
    /\ WF_pc(InitReturns)
    /\ ScannerReadsOn

\* ============================================================ properties
Ready == pc = "ready"

Called == pc = "ready" /\ call.strategy # "none"

AggStrategy == reader._next_block_func = "_agg_key_next_block"

UniqueStrategy == reader._next_block_func = "_unique_key_next_block"

DirectStrategy == reader._next_block_func = "_direct_next_block"

IsPrefix(a, b) == Len(a) <= Len(b) /\ a = SubSeq(b, 1, Len(a))

\* A row is flagged same-key-as-predecessor.
SameFlag(row) == row.is_same \/ row.same_bit

\* The key-groups of the yielded rows: a first row and the maximal run of
\* flagged rows after it.
GroupStarts(rows) == {i \in DOMAIN rows : i = 1 \/ ~SameFlag(rows[i])}

GroupEnd(rows, i) ==
    CHOOSE j \in i..Len(rows) :
        /\ \A m \in (i + 1)..j : SameFlag(rows[m])
        /\ j = Len(rows) \/ ~SameFlag(rows[j + 1])

GroupVals(rows, i) == [m \in 1..(GroupEnd(rows, i) - i + 1) |-> rows[i + m - 1].val]

\* Ordinal of the group that starts at i.
GroupNo(rows, i) == Cardinality({j \in GroupStarts(rows) : j <= i})

\* One row per key-group: its key and the sum of the group's values.
ExpectedAggRows(rows) ==
    SelectIdx([i \in DOMAIN rows |-> [key |-> rows[i].key,
                                      val |-> SumSeq(GroupVals(rows, i))]],
              LAMBDA i : i \in GroupStarts(rows))

KeyVal(rows) == [i \in DOMAIN rows |-> [key |-> rows[i].key, val |-> rows[i].val]]

\* Row m is the last row of its source block.
LastOfBlock(row) == row.block_rows = row.row_pos + 1

\* C1: in an AGG_KEYS scan the rows delivered so far are, in order, one row
\* per key-group with the SUM of all the group's rows, and at end-of-stream
\* every key-group has its row.
C1_AggOneRowPerGroup ==
    (Ready /\ AggStrategy) =>
        /\ IsPrefix(KeyVal(delivered), ExpectedAggRows(iter.rows))
        /\ reader._eof => KeyVal(delivered) = ExpectedAggRows(iter.rows)

\* A finished AGG_KEYS scan with a key-group longer than the batch size that
\* runs over the end of a source block.
C1_Witness ==
    /\ Ready /\ AggStrategy /\ reader._eof
    /\ Len(delivered) >= 2
    /\ \E i \in GroupStarts(iter.rows) :
          /\ GroupEnd(iter.rows, i) - i + 1 > params.batch_size
          /\ \E m \in i..(GroupEnd(iter.rows, i) - 1) : LastOfBlock(iter.rows[m])

\* C2: a key-group whose run was split by a non-finalizing flush (a row
\* before its end is the last of its source block) finalizes to what one
\* accumulate-range call over all its rows gives.
C2_SplitRunEqualsOneShot ==
    (Ready /\ AggStrategy) =>
        \A i \in GroupStarts(iter.rows) :
            \A m \in i..(GroupEnd(iter.rows, i) - 1) :
                (LastOfBlock(iter.rows[m]) /\ GroupNo(iter.rows, i) <= Len(delivered)) =>
                    delivered[GroupNo(iter.rows, i)].val =
                        insert_result_into(
                            add_batch_range(EmptyPlace, GroupVals(iter.rows, i), 0,
                                            GroupEnd(iter.rows, i) - i))

\* A delivered key-group of three or more rows that was split after its
\* second row.
C2_Witness ==
    /\ Ready /\ AggStrategy
    /\ \E i \in GroupStarts(iter.rows) :
          /\ GroupEnd(iter.rows, i) >= i + 2
          /\ LastOfBlock(iter.rows[i + 1])
          /\ GroupNo(iter.rows, i) <= Len(delivered)

SourceKeys == {iter.source[i].key : i \in DOMAIN iter.source}

NewestVersion(k) ==
    LET vs == {iter.source[i].ver : i \in {j \in DOMAIN iter.source : iter.source[j].key = k}}
    IN CHOOSE v \in vs : \A w \in vs : w <= v

DeliveredAt(k) == {i \in DOMAIN delivered : delivered[i].key = k}

\* C3: in a UNIQUE_KEYS scan without delete filter no key is delivered twice,
\* a delivered row is the newest version of its key, and at end-of-stream
\* every key of the rowsets has exactly one row.
C3_UniqueNewestOnce ==
    (Ready /\ UniqueStrategy /\ ~params.delete_sign_available) =>
        \A k \in SourceKeys :
            /\ Cardinality(DeliveredAt(k)) <= 1
            /\ \A i \in DeliveredAt(k) : delivered[i].ver = NewestVersion(k)
            /\ reader._eof => Cardinality(DeliveredAt(k)) = 1

\* A finished UNIQUE_KEYS scan of more than one block with a key that has
\* several versions.
C3_Witness ==
    /\ Ready /\ UniqueStrategy /\ ~params.delete_sign_available /\ reader._eof
    /\ Len(delivered) > params.batch_size
    /\ \E k \in SourceKeys : NewestVersion(k) >= 2

\* C4: the rows delivered, block after block, are in non-decreasing key
\* order, non-increasing under reverse order.
C4_OutputKeyOrder ==
    \A i \in DOMAIN delivered : \A j \in DOMAIN delivered :
        i < j => IF params.read_orderby_key_reverse
                 THEN delivered[i].key >= delivered[j].key
                 ELSE delivered[i].key <= delivered[j].key

\* A reverse-order scan that has delivered several blocks with different keys.
C4_Witness ==
    /\ Called /\ params.read_orderby_key_reverse
    /\ Len(delivered) >= 3
    /\ Len(delivered) > BlockRowCount(block)
    /\ BlockRowCount(block) >= 1
    /\ delivered[1].key > delivered[Len(delivered)].key

DeleteSigned(rows) == {i \in DOMAIN rows : rows[i].del # 0}

InvalidLocations(locs) == {i \in DOMAIN locs : locs[i].row_id = -1}

\* C5: when the delete filter ran on M gathered rows, S of them delete-signed,
\* the block holds the M - |S| unsigned rows in their order; with row
\* locations recorded, the entries of the S rows and only they have row id -1.
C5_DeleteFilterExact ==
    (Called /\ call.strategy = "_unique_key_next_block" /\ call.filtered) =>
        LET g == call.gathered
            locs == reader._block_row_locations
        IN /\ BlockRowCount(block) = Len(g) - Cardinality(DeleteSigned(g))
           /\ block.normal = SelectIdx(g, LAMBDA i : g[i].del = 0)
           /\ params.record_rowids =>
                /\ Len(locs) = Len(g)
                /\ Cardinality(InvalidLocations(locs)) = Cardinality(DeleteSigned(g))
                /\ \A i \in DOMAIN g :
                      locs[i] = IF g[i].del # 0
                                THEN [RowLocationOf(g[i]) EXCEPT !.row_id = -1]
                                ELSE RowLocationOf(g[i])

\* A filtered batch of three rows or more, some dropped and some kept, with
\* row locations recorded.
C5_Witness ==
    /\ Called /\ call.strategy = "_unique_key_next_block" /\ call.filtered
    /\ params.record_rowids
    /\ Len(call.gathered) >= 3
    /\ DeleteSigned(call.gathered) # {}
    /\ BlockRowCount(block) >= 1

\* C6 as stated: a call that returns end_of_stream = true returns no rows
\* (even with the caller's variable false on entry).
C6_EofBlockEmpty ==
    (Called /\ ~call.eof_in /\ eof) => BlockRowCount(block) = 0

\* C6 amended: end_of_stream = true comes with an empty block in the direct
\* strategy and in a call entered after end-of-stream; in UNIQUE_KEYS and
\* AGG_KEYS the call that exhausts the iterator sets it and returns the last
\* gathered rows, at least one, in the same block.
C6_EofWithLastRows ==
    Called =>
        /\ call.entry_eof => (eof /\ BlockRowCount(block) = 0 /\ call.gathered = <<>>)
        /\ (call.strategy = "_direct_next_block" /\ eof) => BlockRowCount(block) = 0
        /\ (call.strategy # "_direct_next_block" /\ call.hit_eof) =>
              /\ eof /\ reader._eof
              /\ Len(call.gathered) >= 1
              /\ iter.pos > Len(iter.rows)
        /\ (BlockRowCount(block) > 0 /\ eof /\ ~call.eof_in) => call.hit_eof

\* The second or later block of a scan, two rows or more, returned with
\* end_of_stream = true by the call that exhausted the iterator.
C6_Witness ==
    /\ Called /\ call.strategy # "_direct_next_block"
    /\ call.hit_eof /\ eof /\ ~call.eof_in
    /\ BlockRowCount(block) >= 2
    /\ Len(delivered) > BlockRowCount(block)

\* C7 as stated: a successful call that leaves rows in the iterator returns
\* end_of_stream = false, whatever the caller's variable held.
C7_EofFalseWhileRowsRemain ==
    (Called /\ res = "OK" /\ iter.pos <= Len(iter.rows)) => ~eof

\* C8: a block of the UNIQUE_KEYS or AGG_KEYS strategy has at most batch_size
\* rows, in its eagerly written columns and in its aggregated column.
C8_BlockWithinBatch ==
    (Called /\ call.strategy # "_direct_next_block") =>
        /\ BlockRowCount(block) <= params.batch_size
        /\ Len(block.agg) <= params.batch_size

\* A full AGG_KEYS block one of whose key-groups has more rows than the
\* batch size.
C8_Witness ==
    /\ Called /\ call.strategy = "_agg_key_next_block"
    /\ BlockRowCount(block) = params.batch_size
    /\ \E i \in GroupStarts(iter.rows) :
          /\ GroupEnd(iter.rows, i) - i + 1 > params.batch_size
          /\ \E n \in DOMAIN block.normal : block.normal[n].id = i

\* C9 as stated, on calls that gathered rows: the row-location list is as
\* long as the returned block.
C9_LocationsMatchBlock ==
    (Called /\ params.record_rowids /\ call.strategy # "_agg_key_next_block"
        /\ ~call.entry_eof /\ (params.delete_sign_available => call.filtered)) =>
        Len(reader._block_row_locations) = BlockRowCount(block)

\* C9 amended: after a call that gathered rows the list has one entry per
\* gathered row: the block's row count when no delete filter is configured,
\* and the block's row count plus the invalid entries when the filter ran.
C9_LocationsMatchGathered ==
    (Called /\ params.record_rowids /\ call.strategy # "_agg_key_next_block"
        /\ ~call.entry_eof) =>
        LET locs == reader._block_row_locations
        IN /\ Len(locs) = Len(call.gathered)
           /\ ~params.delete_sign_available => Len(locs) = BlockRowCount(block)
           /\ call.filtered =>
                Len(locs) = BlockRowCount(block) + Cardinality(InvalidLocations(locs))

\* A batch that ended at the iterator's end below the batch size and lost a
\* row to the delete filter.
C9_Witness ==
    /\ Called /\ params.record_rowids /\ call.strategy = "_unique_key_next_block"
    /\ call.filtered /\ call.hit_eof
    /\ Len(call.gathered) < params.batch_size
    /\ BlockRowCount(block) >= 1
    /\ BlockRowCount(block) < Len(call.gathered)

NonEmptySplits == SelectIdx(rs_splits, LAMBDA i : rs_splits[i].num_rows # 0)

\* The keys a stored bound may stand for: itself, or when the rowset's bounds
\* are truncated any key it is a prefix of.
TrueKeys(bound, truncated) ==
    IF truncated THEN {bound \o sfx : sfx \in {<<>>, <<1>>, <<2>>}} ELSE {bound}

\* C10: when the classifier answers "disjoint", no non-empty rowset has
\* overlapping segments, each has a first key, and every key a rowset's last
\* bound stands for is below every key the next rowset's first bound stands
\* for; a tied or descending pair of bounds makes it answer "needs merge".
C10_ClassifierSound ==
    Ready =>
        LET ne == NonEmptySplits
        IN /\ ~reader._is_rowsets_overlapping =>
                /\ \A i \in DOMAIN ne :
                      ~ne[i].is_segments_overlapping /\ ne[i].has_first_key
                /\ \A i \in 1..(Len(ne) - 1) :
                      \A a \in TrueKeys(ne[i].last_key,
                                        ne[i].is_segments_key_bounds_truncated) :
                      \A b \in TrueKeys(ne[i + 1].first_key,
                                        ne[i + 1].is_segments_key_bounds_truncated) :
                          SliceCompare(a, b) < 0
           /\ (\E i \in 1..(Len(ne) - 1) :
                  SliceCompare(ne[i].last_key, ne[i + 1].first_key) >= 0)
                => reader._is_rowsets_overlapping

\* A list classified disjoint that has an empty rowset and two non-empty
\* ones, one with truncated bounds.
C10_Witness ==
    /\ Ready /\ ~reader._is_rowsets_overlapping
    /\ Len(NonEmptySplits) >= 2
    /\ Len(rs_splits) > Len(NonEmptySplits)
    /\ \E i \in DOMAIN NonEmptySplits :
          NonEmptySplits[i].is_segments_key_bounds_truncated

\* Rowsets as the claim's clean input has them: segments not overlapping, a
\* first key (an encoded key, which is never the empty string), bounds not
\* truncated, and each last key below the next rowset's first key.
CleanSplits(ne) ==
    /\ \A i \in DOMAIN ne :
          /\ ~ne[i].is_segments_overlapping
          /\ ne[i].has_first_key /\ ne[i].first_key # <<>>
          /\ ~ne[i].is_segments_key_bounds_truncated
    /\ \A i \in 1..(Len(ne) - 1) : SliceCompare(ne[i].last_key, ne[i + 1].first_key) < 0

Returned == pc \in {"ready", "next_failed"} /\ call.strategy # "none"

\* C12: when init finds the flag raised at its poll for split k + 1 (k polls
\* saw it clear), it returns the cancellation reason with the rowset readers
\* of splits 1..k set up and added, no later one, and no heap.
C12_InitCancelled ==
    [][(pc = "constructed" /\ runtime_state.clear_polls \in 0..(Len(rs_splits) - 1)) =>
          /\ res' = "CANCELLED" /\ pc' = "init_failed"
          /\ iter'.inited = [i \in 1..runtime_state.clear_polls |-> i]
          /\ iter'.children = iter'.inited
          /\ ~iter'.heap_built /\ iter'.rows = <<>>
          /\ reader'._next_block_func = "none"]_vars

\* init cancelled at its second split, the first being set up.
C12_Witness ==
    /\ pc = "init_failed" /\ res = "CANCELLED"
    /\ iter.children = <<1>>
    /\ Len(rs_splits) >= 2

\* C13 as stated: a next call that runs its pull loop with the flag raised
\* returns a cancellation error and no rows.
C13_NextChecksCancellation ==
    (Returned /\ ~call.entry_eof /\ is_cancelled(runtime_state)) =>
        res = "CANCELLED" /\ BlockRowCount(block) = 0

\* C14 as stated: a next call in which the iterator failed returns that
\* error, has pulled nothing after it, has not written end_of_stream and
\* leaves no rows in the caller's block.
C14_IterErrorNoPartialBlock ==
    pc = "next_failed" =>
        /\ res = "IO_ERROR"
        /\ iter.pos = call.entry_pos + call.pulled
        /\ eof = call.eof_in
        /\ BlockRowCount(block) = 0

\* C15: next never returns END_OF_FILE and none is reported to the tablet;
\* a call in which the iterator answered END_OF_FILE returns OK with
\* end_of_stream set.
C15_EofNeverAFailure ==
    /\ res # "END_OF_FILE"
    /\ \A i \in DOMAIN tablet_errors : tablet_errors[i] # "END_OF_FILE"
    /\ (Returned /\ call.hit_eof) => (res = "OK" /\ eof /\ pc = "ready")

\* The direct strategy at the iterator's end after delivering rows, outside
\* cloud mode, nothing being reported.
C15_Witness ==
    /\ Returned /\ call.strategy = "_direct_next_block" /\ call.hit_eof
    /\ ~params.is_cloud_mode
    /\ Len(delivered) >= 2
    /\ tablet_errors = <<>>

\* init has pulled the first row and found none.
EmptyAtInit == pc # "constructed" /\ iter.heap_built /\ iter.rows = <<>>

\* C16: when the iterator has no row at init's first pull, init succeeds with
\* the reader at end-of-stream and without aggregate slots, and a next call
\* that the iterator does not fail returns OK with end_of_stream set and adds
\* no rows, in every strategy.
C16_EmptyScan ==
    EmptyAtInit =>
        /\ pc # "init_failed"
        /\ reader._eof
        /\ reader._agg_functions = <<>> /\ reader._agg_places = <<>>
        /\ (Returned /\ pc = "ready") =>
              res = "OK" /\ eof /\ BlockRowCount(block) = 0 /\ delivered = <<>>

\* An empty AGG_KEYS scan whose aggregated column has no resolvable function,
\* after a next call entered with the caller's variable false.
C16_Witness ==
    /\ EmptyAtInit /\ AggStrategy /\ Returned
    /\ params.agg_columns = <<"UNKNOWN">>
    /\ ~call.eof_in /\ eof

\* The functions of the columns before the first one that does not resolve.
RECURSIVE ResolvedPrefix(_)
ResolvedPrefix(columns) ==
    IF columns = <<>> \/ get_aggregate_function(Head(columns)) = "null" THEN <<>>
    ELSE <<get_aggregate_function(Head(columns))>> \o ResolvedPrefix(Tail(columns))

\* C17: an AGG_KEYS init over a scan with rows fails with an internal error
\* when a column's function does not resolve and otherwise has one slot per
\* aggregated column in column order; in every state the functions and the
\* states are equally many, so that teardown destroys each created state
\* once with its own function.
C17_AggSlots ==
    /\ Len(reader._agg_functions) = Len(reader._agg_places)
    /\ \A i \in DOMAIN reader._agg_places :
          DestroyedSlots(reader)[i] =
              [function |-> reader._agg_functions[i], place |-> reader._agg_places[i]]
    /\ (pc # "constructed" /\ iter.heap_built /\ iter.rows # <<>>
           /\ SelectNextBlockFunc(params) = "_agg_key_next_block") =>
          /\ reader._agg_functions = ResolvedPrefix(params.agg_columns)
          /\ IF Len(ResolvedPrefix(params.agg_columns)) < Len(params.agg_columns)
             THEN pc = "init_failed" /\ res = "INTERNAL_ERROR"
             ELSE pc # "init_failed"

\* init failed at the second aggregated column with the first one's slot made.
C17_Witness ==
    /\ pc = "init_failed" /\ res = "INTERNAL_ERROR"
    /\ Len(params.agg_columns) = 2
    /\ reader._agg_functions = <<"SUM">> /\ Len(reader._agg_places) = 1

\* The strategy the claim gives for the parameters, merge-on-write tables
\* going direct whatever reads them.
ClaimedStrategy(p) ==
    IF p.direct_mode THEN "_direct_next_block"
    ELSE IF p.keys_type = "DUP_KEYS" THEN "_direct_next_block"
    ELSE IF p.keys_type = "AGG_KEYS" THEN "_agg_key_next_block"
    ELSE IF p.enable_unique_key_merge_on_write THEN "_direct_next_block"
    ELSE "_unique_key_next_block"

\* The same, merge-on-write tables going direct when a query reads them.
AmendedStrategy(p) ==
    IF p.direct_mode THEN "_direct_next_block"
    ELSE IF p.keys_type = "DUP_KEYS" THEN "_direct_next_block"
    ELSE IF p.keys_type = "AGG_KEYS" THEN "_agg_key_next_block"
    ELSE IF p.enable_unique_key_merge_on_write /\ p.reader_type = "QUERY"
    THEN "_direct_next_block"
    ELSE "_unique_key_next_block"

\* C18 as stated: after a successful init, and after every next call, the
\* strategy is the one the claim gives.
C18_MowAlwaysDirect ==
    pc \in {"ready", "next_failed"} => reader._next_block_func = ClaimedStrategy(params)

\* C18 amended: the strategy after a successful init is a function of direct
\* mode, key model, merge-on-write and reader type (a merge-on-write table
\* goes direct only when a query reads it), no next call changes it, and
\* aggregate slots exist only with the aggregate strategy.
C18_StrategySelection ==
    /\ pc \in {"ready", "next_failed"} =>
          reader._next_block_func = AmendedStrategy(params)
    /\ reader._agg_places # <<>> => reader._next_block_func = "_agg_key_next_block"

\* A merge-on-write table read by a compaction, on the unique strategy after
\* several next calls.
C18_Witness ==
    /\ Returned /\ params.keys_type = "UNIQUE_KEYS"
    /\ params.enable_unique_key_merge_on_write /\ params.reader_type = "COMPACTION"
    /\ ~params.direct_mode
    /\ UniqueStrategy /\ Len(delivered) >= 2 /\ call.entry_pos >= 2

\* The rows the rowsets hold, by their metadata.
TotalRows == SumSeq([i \in DOMAIN rs_splits |-> rs_splits[i].num_rows])

\* A DUP_KEYS scan of R rows in clean rowsets with a batch size dividing R.
FastPathInput ==
    /\ params.keys_type = "DUP_KEYS"
    /\ CleanSplits(NonEmptySplits)
    /\ TotalRows = Len(iter.source) /\ TotalRows >= 1
    /\ TotalRows % params.batch_size = 0

InvalidDeleteSignIdx(p) ==
    p.delete_sign_available /\ (p.delete_sign_idx <= 0 \/ p.delete_sign_idx >= NumColumns)

C22_EofAbsorbing ==
    [][(pc = "ready" /\ reader._eof) =>
          /\ res' = "OK" /\ eof' /\ pc' = "ready"
          /\ BlockRowCount(block') = 0 /\ block'.agg = <<>>
          /\ delivered' = delivered
          /\ reader'._eof
          /\ iter'.pos = iter.pos
          /\ reader._next_block_func # "_direct_next_block" =>
                (reader' = reader /\ iter' = iter /\ call'.pulled = 0)]_vars

\* A call after the end of an AGG_KEYS scan of several blocks that merged
\* rows, entered with the caller's variable false.
C22_Witness ==
    /\ Called /\ AggStrategy /\ call.entry_eof /\ ~call.eof_in /\ eof
    /\ Len(delivered) > params.batch_size
    /\ reader._merged_rows >= 1
    /\ reader._agg_places # <<>>

\* An AGG_KEYS call that went through its loop and returned OK.
AggCall == Called /\ call.strategy = "_agg_key_next_block" /\ ~call.entry_eof

\* The place in the yielded rows of the first row of the block's last key.
LastOutputRow == block.normal[BlockRowCount(block)].id

\* C23: an AGG_KEYS call starts with the row the call before it retained and
\* returns either at end-of-stream or with batch_size output rows and, as its
\* current row, the first row of the key after the last output row's key,
\* not emitted yet; the last output row holds the sum of every row of its
\* key, those pulled after the block was full included; no row is emitted
\* twice.
C23_AggBatchBoundary ==
    AggCall =>
        /\ block.normal[1].id = call.entry_pos
        /\ call.entry_pos \in GroupStarts(iter.rows)
        /\ iter.pos = GroupEnd(iter.rows, LastOutputRow) + 1
        /\ block.agg[BlockRowCount(block)] =
              SumSeq(GroupVals(iter.rows, LastOutputRow))
        /\ IF call.hit_eof
           THEN iter.pos = Len(iter.rows) + 1
           ELSE /\ BlockRowCount(block) = params.batch_size
                /\ iter.pos \in GroupStarts(iter.rows)
                /\ reader._next_row = iter.rows[iter.pos]
                /\ \A i \in DOMAIN delivered : delivered[i].id < iter.pos
        /\ \A i \in DOMAIN delivered : \A j \in DOMAIN delivered :
              i # j => delivered[i].id # delivered[j].id

\* A full block, not the first, returned before end-of-stream, whose last
\* key took a further row after the block was full.
C23_Witness ==
    /\ AggCall /\ ~call.hit_eof
    /\ call.entry_pos >= 2
    /\ BlockRowCount(block) = params.batch_size
    /\ GroupEnd(iter.rows, LastOutputRow) >= LastOutputRow + 1
    /\ iter.pos <= Len(iter.rows)

\* C24 as stated: a call that completes a block before the iterator's
\* end-of-stream leaves its last run unfinalized, the run's aggregate state
\* being carried into the next call.
C24_LastRunCarried ==
    (AggCall /\ ~call.hit_eof) =>
        /\ reader._agg_places[1] # EmptyPlace
        /\ Len(block.agg) < BlockRowCount(block)

\* C24 amended: every call that completes a block closes and finalizes its
\* last run, at end-of-stream or not: each output row has its aggregated
\* value, the last one's being the sum of its whole key-group, and the
\* aggregate state is reset, no buffered row and no run counter being left
\* for the next call.
C24_LastRunFinalized ==
    AggCall =>
        /\ Len(block.agg) = BlockRowCount(block)
        /\ block.agg[BlockRowCount(block)] =
              insert_result_into(GroupVals(iter.rows, LastOutputRow))
        /\ reader._agg_places = <<EmptyPlace>>
        /\ reader._stored_row_ref = <<>>
        /\ reader._agg_data_counters = <<>>
        /\ reader._last_agg_data_counter = 0

\* A block completed with rows still to come whose last key-group was
\* flushed open inside the call, at the end of a source block.
C24_Witness ==
    /\ AggCall /\ ~call.hit_eof /\ iter.pos <= Len(iter.rows)
    /\ GroupEnd(iter.rows, LastOutputRow) > LastOutputRow
    /\ LastOfBlock(iter.rows[LastOutputRow])
    /\ reader._agg_places = <<EmptyPlace>>

\* C25: of the flushes of an AGG_KEYS call, those that finalize a run clear
\* the arena and the others do not; at a clear every aggregate state has
\* been reset; after a flush that does not finalize, the arena still holds
\* what the open key-group's state was accumulated from; between calls the
\* arena is empty.
C25_ArenaClearedOnFinalize ==
    (Ready /\ AggStrategy) =>
        /\ \A i \in DOMAIN call.flushes :
              LET f == call.flushes[i]
              IN /\ f.cleared <=> f.is_close
                 /\ f.cleared => (f.arena = <<>> /\ \A k \in DOMAIN f.places :
                                                      f.places[k] = EmptyPlace)
                 /\ ~f.is_close => \A k \in DOMAIN f.places : f.places[k] = f.arena
        /\ AggCall => /\ call.flushes # <<>>
                      /\ call.flushes[Len(call.flushes)].is_close
        /\ reader._arena = <<>>

\* A call with a flush that did not finalize, leaving two rows or more of
\* an open key-group in the arena, followed by flushes that did.
C25_Witness ==
    /\ AggCall
    /\ \E i \in DOMAIN call.flushes :
          /\ ~call.flushes[i].is_close /\ ~call.flushes[i].cleared
          /\ Len(call.flushes[i].arena) >= 2
          /\ i + 2 <= Len(call.flushes)
    /\ reader._arena = <<>>

\* The rows the iterator has yielded and stepped past.
Yielded == [i \in 1..(iter.pos - 1) |-> FullRow(iter.rows[i])]

\* The delete filter runs in this scan.
FilterRuns == params.delete_sign_available /\ ~InvalidDeleteSignIdx(params)

\* C26: in the direct and the UNIQUE_KEYS strategy the rows a call gathers
\* are the iterator's rows from its position at the call's entry up to its
\* position at the return; the rows delivered so far are the rows yielded so
\* far, less the delete-signed ones where the filter runs; the row at the
\* iterator's position is the reader's current row, still to be emitted; at
\* end-of-stream every row has been yielded.
C26_PassThrough ==
    (Called /\ call.strategy # "_agg_key_next_block") =>
        /\ iter.pos <= Len(iter.rows) + 1
        /\ call.gathered = SubSeq(Yielded, call.entry_pos, iter.pos - 1)
        /\ delivered = IF FilterRuns /\ UniqueStrategy
                       THEN SelectSeq(Yielded, LAMBDA r : r.del = 0)
                       ELSE Yielded
        /\ (UniqueStrategy /\ ~reader._eof) => reader._next_row = iter.rows[iter.pos]
        /\ reader._eof => iter.pos = Len(iter.rows) + 1

\* A UNIQUE_KEYS scan read to its end in three blocks or more, each batch
\* before the last having filled, with a row dropped by the delete filter.
C26_Witness ==
    /\ Called /\ UniqueStrategy /\ reader._eof /\ call.hit_eof
    /\ params.batch_size >= 1
    /\ Len(iter.rows) >= 2 * params.batch_size + 1
    /\ Len(delivered) < Len(iter.rows)
    /\ Len(delivered) >= 2

\* C27 as stated: a status other than OK and END_OF_FILE answered by any
\* set-up step, the first-row pull included, is what init returns;
\* END_OF_FILE from add_child passes the split over, init succeeding without
\* it among the valid readers.
C27_InitForwardsErrors ==
    (pc # "constructed" /\ iter.init_fault.stage # "none") =>
        IF iter.init_fault.status # "END_OF_FILE"
        THEN pc = "init_failed" /\ res = iter.init_fault.status
        ELSE iter.init_fault.stage = "add_child" =>
                /\ pc # "init_failed"
                /\ \A k \in DOMAIN iter.children :
                      iter.children[k] # iter.init_fault.at

\* C28: a next call returns the status of its strategy as it is; outside
\* cloud mode a status other than OK is reported to the tablet once, by that
\* call; a call that returns OK, end-of-stream included, reports nothing, and
\* in cloud mode no call does.
C28_TabletErrorReporting ==
    [][pc = "ready" =>
          /\ \E e \in BOOLEAN :
                res' = CallNextBlockFunc(reader, iter, params, EmptyBlock, e).res
          /\ tablet_errors' = IF ~params.is_cloud_mode /\ res' # "OK"
                              THEN Append(tablet_errors, res')
                              ELSE tablet_errors]_vars

\* A next call that failed after earlier calls delivered rows, outside cloud
\* mode: the one report is its status.
C28_Witness ==
    /\ pc = "next_failed" /\ res = "IO_ERROR"
    /\ ~params.is_cloud_mode
    /\ tablet_errors = <<"IO_ERROR">>
    /\ Len(delivered) >= 1

\* The delete-signed rows among the first n rows the iterator yields.
DeleteSignedBefore(n) == {i \in 1..(n - 1) : iter.rows[i].del # 0}

\* C29: in a UNIQUE_KEYS scan whose delete filter runs, after successful
\* calls rows_del_filtered is the number of rows gathered less the number of
\* rows returned, which is the number of delete-signed rows gathered, with
\* row locations recorded or not; the last call added its gathered rows less
\* its block's rows; a call that the iterator fails adds nothing.
C29_RowsDelFiltered ==
    (Returned /\ UniqueStrategy /\ FilterRuns) =>
        IF pc = "ready"
        THEN /\ reader.rows_del_filtered = (iter.pos - 1) - Len(delivered)
             /\ reader.rows_del_filtered = Cardinality(DeleteSignedBefore(iter.pos))
             /\ reader.rows_del_filtered =
                   Cardinality(DeleteSignedBefore(call.entry_pos))
                   + (Len(call.gathered) - BlockRowCount(block))
        ELSE reader.rows_del_filtered = Cardinality(DeleteSignedBefore(call.entry_pos))

\* A scan without row locations after two blocks or more, each of which
\* lost a row to the filter, the last keeping one.
C29_Witness ==
    /\ Called /\ UniqueStrategy /\ FilterRuns /\ ~params.record_rowids
    /\ call.entry_pos >= 2
    /\ reader.rows_del_filtered >= 2
    /\ Len(call.gathered) > BlockRowCount(block)
    /\ BlockRowCount(block) >= 1
    /\ Cardinality(DeleteSignedBefore(call.entry_pos)) >= 1

\* Rowsets without rows: with overlapping segments, without a first key,
\* with truncated bounds, and with a last key above every other.
ZeroRowSplits ==
    {Split(0, TRUE, TRUE, <<1>>, <<1>>, FALSE),
     Split(0, FALSE, FALSE, <<1>>, <<1>>, FALSE),
     Split(0, FALSE, TRUE, <<1>>, <<1>>, TRUE),
     Split(0, FALSE, TRUE, <<2>>, <<2>>, FALSE)}

InsertAt(s, k, x) == SubSeq(s, 1, k - 1) \o <<x>> \o SubSeq(s, k, Len(s))

RemoveAt(s, k) == SubSeq(s, 1, k - 1) \o SubSeq(s, k + 1, Len(s))

\* C30: the answer init has stored for a list is the classifier's answer
\* for the list with every rowset without rows taken out, and with any one
\* of them taken out, and with a rowset without rows put in at any place,
\* whatever that rowset's segments, first key, last key and truncation flag.
C30_ZeroRowSplitsTransparent ==
    (Ready /\ call.strategy = "none") =>
        /\ reader._is_rowsets_overlapping =
              _rowsets_not_mono_asc_disjoint(NonEmptySplits)
        /\ \A k \in DOMAIN rs_splits :
              rs_splits[k].num_rows = 0 =>
                 _rowsets_not_mono_asc_disjoint(RemoveAt(rs_splits, k)) =
                     reader._is_rowsets_overlapping
        /\ \A k \in 1..(Len(rs_splits) + 1) : \A z \in ZeroRowSplits :
              _rowsets_not_mono_asc_disjoint(InsertAt(rs_splits, k, z)) =
                  reader._is_rowsets_overlapping

\* A list classified disjoint with a rowset without rows and without a
\* first key between two rowsets that hold rows.
C30_Witness ==
    /\ Ready /\ ~reader._is_rowsets_overlapping
    /\ \E k \in 2..(Len(rs_splits) - 1) :
          /\ rs_splits[k].num_rows = 0 /\ ~rs_splits[k].has_first_key
          /\ rs_splits[k - 1].num_rows # 0
          /\ rs_splits[k + 1].num_rows # 0

\* A call of a merging strategy that was entered before the end of the stream
\* and returned OK.
MergingCall ==
    /\ Called
    /\ call.strategy \in {"_unique_key_next_block", "_agg_key_next_block"}
    /\ ~call.entry_eof

\* C31: every UNIQUE_KEYS or AGG_KEYS call entered before the end of the
\* stream writes at least one row to the block (before the delete filter) and
\* leaves the iterator beyond the row it was entered at; whatever call the
\* scanner makes before it has seen *eof = true moves the iterator or sets
\* *eof; and a scan that is ready to be read is led by repeated calls to a
\* return with *eof = true and the reader's _eof set.
C31_Progress ==
    /\ [](MergingCall => /\ Len(call.gathered) >= 1
                         /\ iter.pos > call.entry_pos)
    /\ [](ScannerReads =>
            \A e \in BOOLEAN :
                \/ CallNextBlockFunc(reader, iter, params, EmptyBlock, e).it.pos > iter.pos
                \/ /\ reader._eof
                   /\ CallNextBlockFunc(reader, iter, params, EmptyBlock, e).eof)
    /\ (Ready ~> (Ready /\ reader._eof /\ eof))

\* A call entered before the end of the stream, not the first of its scan,
\* has met END_OF_FILE and reported it.
C31_Witness ==
    /\ MergingCall
    /\ call.entry_pos > 1
    /\ call.hit_eof
    /\ reader._eof
    /\ eof

\* The rows the iterator has handed out so far: every row up to its position.
PulledRows == SubSeq(iter.rows, 1, Min(iter.pos, Len(iter.rows)))

\* How many of them continue the key-group of their predecessor.
SameKeyPulled == Cardinality({i \in DOMAIN PulledRows : SameFlag(PulledRows[i])})

\* C32: in an AGG_KEYS scan without errors, after init and after every call
\* _merged_rows is the number of same-key rows pulled so far, and once the
\* end of the stream is reached the rows pulled are as many as the rows of
\* all the blocks returned plus _merged_rows.
C32_AggRowConservation ==
    (Ready /\ AggStrategy) =>
        /\ reader._merged_rows = SameKeyPulled
        /\ reader._eof => Len(iter.rows) = Len(delivered) + reader._merged_rows

\* A scan read to its end in more than one call, rows merged in the last
\* call and before it.
C32_Witness ==
    /\ AggCall
    /\ call.entry_pos > 1
    /\ reader._eof
    /\ Len(delivered) >= 2
    /\ reader._merged_rows >= 2
    /\ \E i \in (call.entry_pos + 1)..Len(iter.rows) : SameFlag(iter.rows[i])
    /\ \E i \in 1..call.entry_pos : SameFlag(iter.rows[i])

\* The key-groups whose first row a call wrote: those that start between the
\* call's entry position and the row it left the iterator at.
GroupsStartedInCall ==
    {i \in GroupStarts(iter.rows) : call.entry_pos <= i /\ i < iter.pos}

\* C33: at the return of an AGG_KEYS call the eagerly written columns and the
\* aggregated column have the same number of rows, one per key-group started
\* in the call, and row i of the aggregated column is the aggregate of the
\* key-group whose key row i of the eager columns holds.
C33_AggBlockShape ==
    AggCall =>
        /\ Len(block.agg) = Len(block.normal)
        /\ Len(block.normal) = Cardinality(GroupsStartedInCall)
        /\ \A i \in DOMAIN block.normal :
              /\ block.normal[i].id \in GroupsStartedInCall
              /\ block.normal[i].key = iter.rows[block.normal[i].id].key
              /\ i <= Len(block.agg) =>
                    block.agg[i] = SumSeq(GroupVals(iter.rows, block.normal[i].id))

\* A block of several rows whose call flushed more often than it finalized,
\* a closed run having been left without buffered rows.
C33_Witness ==
    /\ AggCall
    /\ BlockRowCount(block) >= 2
    /\ Len(call.flushes) > BlockRowCount(block)
    /\ \E i \in 1..(BlockRowCount(block) - 1) :
          LastOfBlock(iter.rows[GroupEnd(iter.rows, block.normal[i].id)])

\* The number of _update_agg_value calls the flush u makes: one for each
\* closed run and one for the open run if it holds a row.
RangesOf(u) == Len(u.counters) + (IF u.last # 0 THEN 1 ELSE 0)

\* The j-th _update_agg_value call of the flush u.
RangeOf(u, j) == call.ranges[u.first + j - 1]

\* The buffered rows of the flush u that its j-th range names.
RangeRefs(u, j) ==
    [m \in 1..(RangeOf(u, j).end - RangeOf(u, j).begin + 1) |->
        u.refs[RangeOf(u, j).begin + m]]

\* The row whose value v is.
RowOfVal(v) == CHOOSE i \in DOMAIN iter.rows : iter.rows[i].val = v

\* The ranges of the flush u are contiguous, start at row 0 and end at the
\* last copied row.
RangesCover(u) ==
    /\ RangesOf(u) = 0 => Len(u.refs) = 0
    /\ RangesOf(u) > 0 =>
          /\ RangeOf(u, 1).begin = 0
          /\ RangeOf(u, RangesOf(u)).end = Len(u.refs) - 1
          /\ \A j \in 1..(RangesOf(u) - 1) :
                RangeOf(u, j + 1).begin = RangeOf(u, j).end + 1
    /\ \A j \in 1..RangesOf(u) : RangeOf(u, j).begin <= RangeOf(u, j).end + 1

\* The j-th range of the flush u folds exactly its rows into the state, all
\* rows the state then holds being of one key-group; without rows it folds
\* nothing.
RangeInOwnGroup(u, j) ==
    /\ RangeOf(u, j).after =
          RangeOf(u, j).before \o [m \in DOMAIN RangeRefs(u, j) |-> RangeRefs(u, j)[m].val]
    /\ \A m \in DOMAIN RangeOf(u, j).after : \A n \in DOMAIN RangeOf(u, j).after :
          GroupNo(iter.rows, RowOfVal(RangeOf(u, j).after[m])) =
          GroupNo(iter.rows, RowOfVal(RangeOf(u, j).after[n]))

\* The ids of the rows the ranges from the k-th flush on fold in, in order.
RECURSIVE AccumulatedFrom(_)
AccumulatedFrom(k) ==
    IF k > Len(call.ranges) THEN <<>>
    ELSE LET u == CHOOSE u \in {call.updates[i] : i \in DOMAIN call.updates} :
                     u.first <= k /\ k < u.first + RangesOf(u)
         IN [m \in DOMAIN RangeRefs(u, k - u.first + 1) |->
                RangeRefs(u, k - u.first + 1)[m].id] \o AccumulatedFrom(k + 1)

\* C34: in an AGG_KEYS scan the closed-run counters and the open-run counter
\* add up to the number of buffered refs, between calls and at the entry of
\* every flush; the accumulate ranges of a flush are contiguous and cover
\* rows 0 to copy_size - 1; every row the call buffered is folded in exactly
\* once, into a state that holds rows of its key-group only; and a run
\* without buffered rows folds nothing in.
C34_AggRunAccounting ==
    /\ (Ready /\ AggStrategy) =>
          SumSeq(reader._agg_data_counters) + reader._last_agg_data_counter =
              Len(reader._stored_row_ref)
    /\ AggCall =>
          /\ \A k \in DOMAIN call.updates :
                /\ SumSeq(call.updates[k].counters) + call.updates[k].last =
                      Len(call.updates[k].refs)
                /\ RangesCover(call.updates[k])
                /\ \A j \in 1..RangesOf(call.updates[k]) :
                      RangeInOwnGroup(call.updates[k], j)
          /\ AccumulatedFrom(1) =
                [m \in 1..(iter.pos - call.entry_pos) |-> call.entry_pos + m - 1]

\* A flush with a closed run that holds no row, a closed run that holds
\* rows and an open run.
C34_Witness ==
    /\ AggCall
    /\ \E k \in DOMAIN call.updates :
          /\ call.updates[k].last # 0
          /\ \E i \in DOMAIN call.updates[k].counters : call.updates[k].counters[i] = 0
          /\ \E i \in DOMAIN call.updates[k].counters : call.updates[k].counters[i] > 0

\* The handler called the manager's function.
Calls(w, name) == \E i \in DOMAIN w.calls : w.calls[i] = name

\* C35: whenever warm_up_tablets handles a request, the manager's job metas
\* grow by the request's metas if add_job was called and not otherwise;
\* add_job is called only for SET_JOB, after check_and_set_job_id answered OK
\* and check_and_set_batch_id answered OK without retry, and for SET_BATCH,
\* after check_and_set_batch_id answered OK without retry; a SET_JOB whose
\* check_and_set_job_id failed calls nothing else; the two other request
\* types never call add_job.
C35_WarmUpAddsAcceptedOnly ==
    [][warm_up' # warm_up =>
        /\ warm_up'.jobs = warm_up.jobs \o
              (IF Calls(warm_up', "add_job") THEN warm_up'.request.job_metas ELSE <<>>)
        /\ Calls(warm_up', "add_job") =>
              /\ warm_up'.answers.batch_st = "OK"
              /\ ~warm_up'.answers.retry
              /\ \/ /\ warm_up'.request.type = "SET_JOB"
                    /\ warm_up'.answers.job_st = "OK"
                    /\ warm_up'.calls = <<"check_and_set_job_id",
                                          "check_and_set_batch_id", "add_job">>
                 \/ /\ warm_up'.request.type = "SET_BATCH"
                    /\ warm_up'.calls = <<"check_and_set_batch_id", "add_job">>
        /\ (warm_up'.request.type = "SET_JOB" /\ warm_up'.answers.job_st # "OK") =>
              /\ warm_up'.calls = <<"check_and_set_job_id">>
              /\ warm_up'.response.status = warm_up'.answers.job_st
        /\ warm_up'.request.type \in {"GET_CURRENT_JOB_STATE_AND_LEASE", "CLEAR_JOB"} =>
              ~Calls(warm_up', "add_job")]_vars

\* A SET_JOB request whose ids were accepted has added its metas to metas
\* an earlier request added.
C35_Witness ==
    /\ warm_up.request.type = "SET_JOB"
    /\ warm_up.request.job_metas # <<>>
    /\ Calls(warm_up, "add_job")
    /\ Len(warm_up.jobs) > Len(warm_up.request.job_metas)

\* C36: in an AGG_KEYS scan the buffer of row refs never holds more than
\* batch_size refs, between calls or at any flush inside a call, and the
\* stored data column keeps the batch_size rows it was created with: no row
\* was written beyond them.
C36_AggBufferBound ==
    (Ready /\ AggStrategy) =>
        /\ Len(reader._stored_row_ref) <= params.batch_size
        /\ \A k \in DOMAIN call.updates :
              Len(call.updates[k].refs) <= params.batch_size
        /\ iter.rows # <<>> => Len(reader._stored_data_columns) = params.batch_size

\* A flush of a buffer that holds batch_size refs, more than one, the last
\* of them not the last row of its source block.
C36_Witness ==
    /\ AggCall
    /\ params.batch_size >= 2
    /\ \E k \in DOMAIN call.updates :
          /\ Len(call.updates[k].refs) = params.batch_size
          /\ ~LastOfBlock(call.updates[k].refs[params.batch_size])

\* C37: whenever the AGG_KEYS loop pulls the next row from the iterator, no
\* buffered row ref points to the last row of its source block.
C37_AggRefsValidAtPull ==
    AggCall =>
        /\ Len(call.pulls) >= 1
        /\ \A k \in DOMAIN call.pulls : \A m \in DOMAIN call.pulls[k] :
              ~LastOfBlock(call.pulls[k][m])

\* A call that buffered the last row of a source block after another row,
\* flushed both and pulled on with refs of the next block buffered.
C37_Witness ==
    /\ AggCall
    /\ \E k \in DOMAIN call.updates :
          /\ Len(call.updates[k].refs) >= 2
          /\ LastOfBlock(call.updates[k].refs[Len(call.updates[k].refs)])
    /\ \E k \in DOMAIN call.pulls : call.pulls[k] # <<>>
====
